---- MODULE Spec2Model ----
(***************************************************************************)
(* ResultAsync (src/src/ResultAsync.ts) over Result (src/unnamed/part_000). *)
(*                                                                         *)
(* A ResultAsync is a heap object holding a producer (runPromise).  A call *)
(* of a producer is a frame; frames suspend at the awaits of the code and  *)
(* are resumed one at a time, as jobs of the single-threaded event loop.   *)
(***************************************************************************)
EXTENDS Integers, Sequences, FiniteSets, TLC

\* ---------------------------------------------------------------- bounds
MaxVal       == 2  \* payloads of the known producers are 1..MaxVal
MaxObjs      == 3  \* ResultAsync objects the client constructs
MaxRuns      == 2  \* top-level run() / await calls the client makes
MaxList      == 2  \* length of the lists handed to sequence / all

VARIABLES heap, frames, calls, cbcalls, runs, sync

vars == <<heap, frames, calls, cbcalls, runs, sync>>

\* ---------------------------------------------------------------- values
\* Every JavaScript value is a record of one shape, so that any two values
\* can be compared: numbers, undefined, arrays, functions, references to
\* ResultAsync objects, TypeErrors and the two Result variants.
Num(n)   == [ty |-> "num",   n |-> n, l |-> <<>>]
Undef    == [ty |-> "undef", n |-> 0, l |-> <<>>]
List(s)  == [ty |-> "list",  n |-> 0, l |-> s]
Fn(i)    == [ty |-> "fn",    n |-> i, l |-> <<>>]
Ref(i)   == [ty |-> "ra",    n |-> i, l |-> <<>>]
TypeError == [ty |-> "TypeError", n |-> 0, l |-> <<>>]
\* the Error object a failing client callback raises
Boom     == [ty |-> "Error", n |-> 0, l |-> <<>>]

Ok(v)  == [ty |-> "Ok",  n |-> 0, l |-> <<v>>]
Err(e) == [ty |-> "Err", n |-> 0, l |-> <<e>>]

isResult(x) == x.ty \in {"Ok", "Err"}
isOk(r)     == r.ty = "Ok"
isErr(r)    == r.ty = "Err"
extract(r)  == r.l[1]

Vals == {Num(n) : n \in 1..MaxVal}

\* The two variants of Maybe (./Maybe).
Just(v) == [ty |-> "Just", n |-> 0, l |-> <<v>>]
Nothing == [ty |-> "Nothing", n |-> 0, l |-> <<>>]

\* a toMaybe that keeps the payload of an Err
Result_toMaybe_any(r) == Just(extract(r))

\* Ok.toMaybe (part_000:263-265): Just(this.__value)
\* Err.toMaybe (400-402): Nothing
Result_toMaybe(r) == IF isOk(r) THEN Just(extract(r)) ELSE Nothing

\* Ok.errToMaybe (267-269): Nothing
\* Err.errToMaybe (404-406): Just(this.__value)
Result_errToMaybe(r) == IF isErr(r) THEN Just(extract(r)) ELSE Nothing

\* ------------------------------------------------------ promise outcomes
\* What a call produces: a promise that is (or will be) resolved with v, a
\* promise rejected with v, or an exception v thrown before any promise is
\* returned.
Resolved(v) == [t |-> "resolved", v |-> v]
Rejected(v) == [t |-> "rejected", v |-> v]
Thrown(v)   == [t |-> "throw",    v |-> v]
NoOutcome   == [t |-> "none",     v |-> Undef]

\* An async function turns an exception of its body into a rejection.
AsyncFn(o) == IF o.t = "throw" THEN Rejected(o.v) ELSE o

\* A promise as a value: settled with o.
PromiseOf(o) ==
    [ty |-> "promise", n |-> IF o.t = "resolved" THEN 1 ELSE 0, l |-> <<o.v>>]

\* Promise.resolve(x): a promise is handed on, anything else becomes a
\* promise resolved with it
Promise_resolve(x) ==
    IF x.ty # "promise" THEN Resolved(x)
    ELSE IF x.n = 1 THEN Resolved(x.l[1]) ELSE Rejected(x.l[1])

\* ---------------------------------------------------------------- helpers
\* a liftResult that throws the Err itself instead of what it holds
helpers_liftResult_whole(result) ==
    IF ~isResult(result) THEN Thrown(TypeError)
    ELSE IF isOk(result) THEN Resolved(extract(result))
    ELSE Thrown(result)

\* if (result.isOk()) return Promise.resolve(result.extract())
\* throw result.extract()
helpers_liftResult(result) ==
    IF ~isResult(result) THEN Thrown(TypeError)
    ELSE IF isOk(result) THEN Promise_resolve(extract(result))
    ELSE Thrown(extract(result))

\* promise.then(helpers.liftResult): a rejection passes through, an
\* exception of the callback rejects the derived promise.
helpers_fromPromise(promise) ==
    CASE promise.t = "throw"    -> promise
      [] promise.t = "rejected" -> promise
      [] OTHER                  -> AsyncFn(helpers_liftResult(promise.v))

helpers_throwE(error) == Thrown(error)

\* ------------------------------------------------------------ MaybeAsync
\* liftMaybe of the helpers a MaybeAsync hands to its producer: the value
\* of a Just, and Nothing ends the producer
liftMaybe(maybe) ==
    IF maybe.ty = "Just" THEN Resolved(extract(maybe)) ELSE Thrown(Nothing)

\* MaybeAsync.run(): Just of what the producer resolves to, Nothing if it
\* fails
MaybeAsync_run(o) ==
    IF o.t = "resolved" THEN Resolved(Just(o.v)) ELSE Resolved(Nothing)

\* ------------------------------------------------------------------- run
\* const helpers = { liftResult, fromPromise, throwE }: the one object the
\* module creates when it is loaded
helpers == [ty |-> "helpers", n |-> 0, l |-> <<>>]

\* a run that creates the helpers for the call it makes
run_helpers_fresh(fid) == [ty |-> "helpers", n |-> fid, l |-> <<>>]

\* this.runPromise(helpers) in run: the object the call fid of the
\* producer is handed
run_helpers(fid) == helpers

\* a run without the try / catch: what the producer throws or rejects
\* with escapes
run_uncaught(o) ==
    CASE o.t = "resolved" -> Resolved(Ok(o.v))
      [] o.t = "rejected" -> o
      [] OTHER            -> o

\* try { return Ok(await this.runPromise(helpers)) } catch (e) { return Err(e) }
run(o) ==
    CASE o.t = "resolved" -> Resolved(Ok(o.v))
      [] o.t = "rejected" -> Resolved(Err(o.v))
      [] OTHER            -> Resolved(Err(o.v))

\* ------------------------------------------------------- user producers
\* A producer written by the client, by what it does when it is called
\* (the failure surfaces of src/src/ResultAsync.ts:25-36):
\*   ret     async () => v
\*   throwE  async ({ throwE }) => throwE(e)
\*   lift    ({ liftResult }) => liftResult(r)
\*   fromP   ({ fromPromise }) => fromPromise(p)
\*   reject  () => Promise.reject(e)
\*   throw   () => { throw e }
\*   liftResult  the producer built by the static liftResult(result)
\*   fromPf  the producer built by the static fromPromise(f)
\*   any     a producer that is not known in advance: each call ends in one
\*           of the three ways a call can end, decided when it settles
Results == {Ok(v) : v \in Vals} \cup {Err(v) : v \in Vals}

Behaviours ==
         {[c |-> "ret",    p |-> Resolved(v)] : v \in Vals}
    \cup {[c |-> "throwE", p |-> Thrown(v)]   : v \in Vals}
    \cup {[c |-> "lift",   p |-> Resolved(r)] : r \in Results}
    \cup {[c |-> "fromP",  p |-> Resolved(r)] : r \in Results}
    \cup {[c |-> "fromP",  p |-> Rejected(v)] : v \in Vals}
    \cup {[c |-> "reject", p |-> Rejected(v)] : v \in Vals}
    \cup {[c |-> "throw",  p |-> Thrown(v)]   : v \in Vals}

FromPromiseArgs ==
         {Resolved(r) : r \in Results}
    \cup {Rejected(v) : v \in Vals}
    \cup {Thrown(v)   : v \in Vals}

Opaque == [c |-> "any", p |-> NoOutcome]

\* The producers of test('try/catch'), which await a helper inside a try:
\*   tryFromP   try { await fromPromise(p) } catch { throwE(ShouldShow) }
\*   tryLift    try { await liftResult(r) } catch { throwE(ShouldShow) }
\*   tryReturn  try { await fromPromise(p) } catch { }
Catching ==
         {[c |-> "tryFromP",  p |-> Resolved(r)] : r \in Results}
    \cup {[c |-> "tryFromP",  p |-> Rejected(v)] : v \in Vals}
    \cup {[c |-> "tryLift",   p |-> Resolved(r)] : r \in Results}
    \cup {[c |-> "tryReturn", p |-> Resolved(r)] : r \in Results}
    \cup {[c |-> "tryReturn", p |-> Rejected(v)] : v \in Vals}

\* 'should show': an error that is none of the payloads
ShouldShow == Num(MaxVal + 1)

\* a try block whose catch never gets the failure
tryCatch_through(a, handler) == IF a.t = "resolved" THEN Resolved(Undef) ELSE a

\* try { await a } catch { handler }: the catch block runs if the awaited
\* promise is rejected or the expression throws; the body returns nothing
tryCatch(a, handler) == IF a.t = "resolved" THEN Resolved(Undef) ELSE handler

\* The promise (or exception) a call of a known producer yields.
runPromise(b) ==
    CASE b.c = "ret"    -> AsyncFn(b.p)
      [] b.c = "throwE" -> AsyncFn(helpers_throwE(b.p.v))
      [] b.c = "lift"   -> helpers_liftResult(b.p.v)
      [] b.c = "fromP"  -> helpers_fromPromise(b.p)
      [] b.c = "reject" -> b.p
      [] b.c = "throw"  -> b.p
      [] b.c = "liftResult" -> helpers_liftResult(b.p.v)
      [] b.c = "fromPf" -> helpers_fromPromise(b.p)
      [] b.c = "tryFromP" ->
            AsyncFn(tryCatch(helpers_fromPromise(b.p), helpers_throwE(ShouldShow)))
      [] b.c = "tryLift" ->
            AsyncFn(tryCatch(helpers_liftResult(b.p.v), helpers_throwE(ShouldShow)))
      [] b.c = "tryReturn" ->
            AsyncFn(tryCatch(helpers_fromPromise(b.p), Resolved(Undef)))
      [] OTHER          -> NoOutcome

\* ------------------------------------------------------------------ state
\* heap    : the ResultAsync objects constructed so far; an object is its
\*           producer: k names the code that built it, b is the behaviour of
\*           a client producer and T the type of the value it resolves to,
\*           a / o / l are the objects it closes over and f / g the client
\*           callbacks it closes over
\* frames  : the calls of producers made on behalf of the top-level calls
\*           the client still holds, finished or suspended
\* calls   : how often the producer of each object has been called
\* cbcalls : how often the client callback of each object has been called
\* runs    : how often the client has called run() on (or awaited) each
\*           object
Obj(k, b, T, a, o, l, f, g) ==
    [k |-> k, b |-> b, T |-> T, a |-> a, o |-> o, l |-> l, f |-> f, g |-> g]

Frame(obj, via, parent, st) ==
    [obj |-> obj, via |-> via, parent |-> parent, st |-> st, pc |-> 0,
     kids |-> <<>>, pend |-> NoOutcome, out |-> NoOutcome,
     acc |-> <<>>, ord |-> <<>>, helpers |-> Undef]

Objs == 1..Len(heap)
Fids == 1..Len(frames)

Machine == [frames |-> frames, calls |-> calls, cbcalls |-> cbcalls]

\* The function value Fn(i) applies as x => x + 10 * i, and Fn(0) as
\* () => { throw new Error() }.
ApplyFn(g, x) ==
    IF g.ty = "fn" /\ g.n = 0 THEN Thrown(Boom)
    ELSE IF g.ty = "fn" /\ x.ty = "num" THEN Resolved(Num(x.n + 10 * g.n))
    ELSE Thrown(TypeError)

\* ResultAsync.liftResult(result) as a value handed to a callback
Lifted(result) == [ty |-> "lifted", n |-> 0, l |-> <<result>>]

\* Ok.orDefault (part_000:247-249) / Err.orDefault (380-382)
Result_orDefault(r, defaultValue) == IF isOk(r) THEN extract(r) ELSE defaultValue

\* orDefault of a ResultAsync (src/src/ResultAsync.ts:135-137), x being
\* ResultAsync.liftResult(result):
\*   this.run().then((x) => x.orDefault(defaultValue))
orDefault(x, defaultValue) ==
    PromiseOf(Resolved(Result_orDefault(run(helpers_liftResult(x.l[1])).v,
                                        defaultValue)))

\* The client callbacks, by what a call does:
\*   id     x => x                  inc    x => x + 1
\*   void   (_) => {}               throw  () => { throw new Error() }
\*   noop   () => {}                reject () => Promise.reject(new Error())
\*   ok     x => Promise.resolve(Ok(x + 1))
\*   err    x => Promise.resolve(Err(x))
\*   rej    x => Promise.reject(x)
\*   toRA   (_) => other, a ResultAsync built before
\*   orDefault  x => x.orDefault(0), x a ResultAsync
CallFn(f, x, other) ==
    CASE f = "id"     -> Resolved(x)
      [] f = "inc"    -> IF x.ty = "num" THEN Resolved(Num(x.n + 1))
                         ELSE Thrown(TypeError)
      [] f = "void"   -> Resolved(Undef)
      [] f = "noop"   -> Resolved(Undef)
      [] f = "throw"  -> Thrown(Boom)
      [] f = "reject" -> Resolved([ty |-> "promise", n |-> 0, l |-> <<Boom>>])
      [] f = "ok"     -> IF x.ty = "num" THEN Resolved(Ok(Num(x.n + 1)))
                         ELSE Thrown(TypeError)
      [] f = "err"    -> Resolved(Err(x))
      [] f = "rej"    -> Rejected(x)
      [] f = "toRA"   -> Resolved(Ref(other))
      [] f = "orDefault" -> IF x.ty = "lifted" THEN Resolved(orDefault(x, Num(0)))
                            ELSE Thrown(TypeError)
      [] OTHER        -> Thrown(TypeError)

\* x => g(f(x)); with g = "none" it is f
Composed(f, g, x) ==
    LET c == CallFn(f, x, 0)
    IN  IF g = "none" \/ c.t # "resolved" THEN c ELSE CallFn(g, c.v, 0)

\* The ways a call of the unknown producer obj can end: the payload names
\* the producer, so the values and errors of different producers differ.
\* A producer of type "ra" resolves to the ResultAsync it closes over.
Endings(obj) ==
    IF obj = 0 THEN {} ELSE
    { Resolved(CASE heap[obj].T = "fn" -> Fn(obj)
                 [] heap[obj].T = "thrower" -> Fn(0)
                 [] heap[obj].T = "ra" -> Ref(heap[obj].o)
                 [] OTHER              -> Num(obj)),
      Rejected(Num(obj)),
      Thrown(Num(obj)) }

\* Ok.bimap / Err.bimap (src/unnamed/part_000:183-185, 316-318); a throw
\* of the callback propagates
Result_bimap(r, f, g) ==
    LET c == CallFn(IF isOk(r) THEN g ELSE f, extract(r), 0)
    IN  IF c.t # "resolved" THEN Thrown(c.v)
        ELSE Resolved(IF isOk(r) THEN Ok(c.v) ELSE Err(c.v))

\* Result.sequence (src/unnamed/part_000:137-148)
RECURSIVE SeqLoop(_, _, _)
SeqLoop(results, i, res) ==
    IF i > Len(results) THEN Ok(List(res))
    ELSE IF isErr(results[i]) THEN results[i]
    ELSE SeqLoop(results, i + 1, Append(res, extract(results[i])))

\* a sequence that returns the Err that comes last in the list
Result_sequence_last(results) ==
    LET E == {i \in 1..Len(results) : isErr(results[i])}
    IN  IF E = {} THEN SeqLoop(results, 1, <<>>)
        ELSE results[CHOOSE i \in E : \A j \in E : j <= i]

Result_sequence(results) == SeqLoop(results, 1, <<>>)

\* a Result.errs that does not leave out the Ok elements
Result_errs_every(list) == [i \in 1..Len(list) |-> extract(list[i])]

\* Result.errs (src/unnamed/part_000:108-118)
Result_errs(list) ==
    LET ErrsOf[i \in 0..Len(list)] ==
            IF i = 0 THEN <<>>
            ELSE IF isErr(list[i]) THEN Append(ErrsOf[i - 1], extract(list[i]))
            ELSE ErrsOf[i - 1]
    IN  ErrsOf[Len(list)]

\* Result.oks (src/unnamed/part_000:119-129)
Result_oks(list) ==
    LET OksOf[i \in 0..Len(list)] ==
            IF i = 0 THEN <<>>
            ELSE IF isOk(list[i]) THEN Append(OksOf[i - 1], extract(list[i]))
            ELSE OksOf[i - 1]
    IN  OksOf[Len(list)]

\* The calls that wait for a list of elements with Promise.all: the
\* producer of all(list), and the calls of the statics errs(list) and
\* oks(list), which belong to no ResultAsync (obj = 0).
Gathers == {"all", "errs", "oks"}

Kind(f) == IF f.obj = 0 THEN f.via ELSE heap[f.obj].k

\* what becomes of the array Promise.all resolved with
Gathered(kind, values) ==
    CASE kind = "errs" -> Resolved(List(Result_errs(values)))
      [] kind = "oks"  -> Resolved(List(Result_oks(values)))
      [] OTHER         ->
            helpers_fromPromise(AsyncFn(Resolved(Result_sequence(values))))

\* a then that hands on the payload of an Ok and rejects with that of an Err
then_unwrapped(o) ==
    CASE o.t = "resolved" -> o
      [] OTHER            -> Rejected(o.v)

\* then: this.run().then(onfulfilled, onrejected); the caller is handed
\* what run()'s promise settles with
then(o) == run(o)

\* The producer's promise has settled with o.  A frame entered through
\* run() or then() hands its caller run's promise, a frame entered through
\* this.runPromise(helpers) hands over the producer's own outcome.
\* An element of Promise.all notes the order in which the elements settle
\* (ord): the reactions of Promise.all run in that order.
Finish(S, fid, o) ==
    LET p  == S.frames[fid].parent
        S1 == [S EXCEPT !.frames[fid].st  = "done",
                        !.frames[fid].out =
                            CASE S.frames[fid].via = "run"  ->
                                    IF Kind(S.frames[fid]) = "toMaybeAsync"
                                    THEN MaybeAsync_run(o) ELSE run(o)
                              [] S.frames[fid].via = "then" -> then(o)
                              [] OTHER                      -> o]
    IN  IF p # 0 /\ Kind(S.frames[p]) \in Gathers
        THEN [S1 EXCEPT !.frames[p].ord =
                 Append(@, CHOOSE j \in 1..Len(S.frames[p].kids) :
                                S.frames[p].kids[j] = fid)]
        ELSE S1

\* what `await p` evaluates to in an async body: the value, or a throw
Awaited(o) == IF o.t = "resolved" THEN o ELSE Thrown(o.v)

LastKid(S, fid) == S.frames[S.frames[fid].kids[Len(S.frames[fid].kids)]]

RECURSIVE Call(_, _, _, _, _), Enter(_, _), CallEach(_, _, _, _)
RECURSIVE RunEach(_, _, _, _)

\* obj's producer is called for the frame fid (run / then / runPromise):
\* the code up to its first suspension.
Enter(S, fid) ==
    LET obj == S.frames[fid].obj
        h   == heap[obj]
        S1  == [S EXCEPT !.calls[obj] = @ + 1,
                         !.frames[fid].st = "running",
                         \* run() hands over helpers; a producer that calls
                         \* this.runPromise(helpers) hands on what it got
                         !.frames[fid].helpers =
                             IF S.frames[fid].via \in {"run", "then"}
                             THEN run_helpers(fid)
                             ELSE S.frames[S.frames[fid].parent].helpers]
    IN  CASE h.k = "prod" ->
                [S1 EXCEPT !.frames[fid].pend = runPromise(h.b)]
          [] h.k \in {"map", "mapErr", "chain", "chainErr"} ->
                \* this.runPromise(helpers)
                Call(S1, h.a, "raw", fid, FALSE)
          [] h.k \in {"bimap", "extend", "swap", "ifErr", "ifOk", "finally",
                      "toMaybeAsync"} ->
                \* this.run()
                Call(S1, h.a, "run", fid, FALSE)
          [] h.k \in {"alt", "join"} ->
                \* await this
                Call(S1, h.a, "then", fid, TRUE)
          [] h.k = "ap" ->
                \* const otherValue = await resultF
                Call(S1, h.o, "then", fid, TRUE)
          [] h.k = "sequence" ->
                \* for await (const e of eas)
                IF h.l = <<>>
                THEN Finish(S1, fid, AsyncFn(helpers_liftResult(Ok(List(<<>>)))))
                ELSE Call([S1 EXCEPT !.frames[fid].pc = 1], h.l[1], "then", fid, TRUE)
          [] h.k = "all" ->
                \* fP(f()) with f = async () => Promise.all(eas).then(Result.sequence)
                IF h.l = <<>>
                THEN Finish(S1, fid,
                        helpers_fromPromise(AsyncFn(Resolved(Result_sequence(<<>>)))))
                ELSE CallEach([S1 EXCEPT !.frames[fid].acc =
                                            [i \in 1..Len(h.l) |-> Undef]],
                              h.l, 1, fid)
          [] OTHER -> S1

\* A new frame for obj on behalf of parent.  sched: the call is made by a
\* later job (await of a thenable); otherwise it is made right now.
Call(S, obj, via, parent, sched) ==
    LET fid == Len(S.frames) + 1
        S1  == [S EXCEPT !.frames = Append(@, Frame(obj, via, parent,
                                           IF sched THEN "scheduled" ELSE "new"))]
        S2  == IF parent = 0 THEN S1
               ELSE [S1 EXCEPT !.frames[parent].kids = Append(@, fid)]
    IN  IF sched THEN S2 ELSE Enter(S2, fid)

\* Promise.all(eas): every element is a thenable, a job will call its then
CallEach(S, list, i, parent) ==
    IF i > Len(list) THEN S
    ELSE CallEach(Call(S, list[i], "then", parent, TRUE), list, i + 1, parent)

\* list.map((x) => x.run()): run() is called on every element, in order
RunEach(S, list, i, parent) ==
    IF i > Len(list) THEN S
    ELSE RunEach(Call(S, list[i], "run", parent, FALSE), list, i + 1, parent)

\* The client callback of the frame's object is called.
Callback(S, fid) == [S EXCEPT !.cbcalls[S.frames[fid].obj] = @ + 1]

\* A promise is resolved with o: a thenable is adopted (a job calls its
\* then), anything else settles the promise.
Settled(S, fid, o) ==
    IF o.t = "resolved" /\ o.v.ty = "ra"
    THEN Call([S EXCEPT !.frames[fid].pc = 9], o.v.n, "then", fid, TRUE)
    ELSE Finish(S, fid, o)

\* helpers.fromPromise(f(x)) in chain / chainErr: fo is what the call of
\* the callback yielded
FromCallback(S, fid, fo) ==
    CASE fo.t = "throw" -> Finish(S, fid, Rejected(fo.v))
      [] fo.t = "resolved" /\ fo.v.ty = "ra" ->
            \* f(x).then(helpers.liftResult): then() calls run() at once
            Call([S EXCEPT !.frames[fid].pc = 1], fo.v.n, "then", fid, FALSE)
      [] OTHER -> Finish(S, fid, AsyncFn(helpers_fromPromise(fo)))

\* helpers.fromPromise(x) for an x the callback handed back as it is:
\* promise.then(helpers.liftResult) calls the then of a ResultAsync, and
\* throws a TypeError for a Result or a number, which have no then
FromValue(S, fid, x) ==
    IF x.ty = "ra"
    THEN Call([S EXCEPT !.frames[fid].pc = 1], x.n, "then", fid, FALSE)
    ELSE Finish(S, fid, AsyncFn(Thrown(TypeError)))

\* What the await a producer is suspended at evaluates to, once the call
\* it waits for has settled.
KidOut(S, fid) == LastKid(S, fid).out

AwaitKid(S, fid) == Awaited(KidOut(S, fid))

\* the awaited run() did not hand over a Result: calling a method of it
\* throws, and the async producer rejects
NoResult(r) == r.t = "throw" \/ ~isResult(r.v)

Reject(r) == IF r.t = "throw" THEN Rejected(r.v) ELSE Rejected(TypeError)

\* a map that hands a rejection to f as well
map_producer_onrejected(S, fid) ==
    LET k == KidOut(S, fid)
        h == heap[S.frames[fid].obj]
    IN  IF k.t = "throw" THEN Finish(S, fid, k)
        ELSE Finish(Callback(S, fid), fid, AsyncFn(Composed(h.f, h.g, k.v)))

\* map: this.runPromise(helpers).then(f)
map_producer(S, fid) ==
    LET k == KidOut(S, fid)
        h == heap[S.frames[fid].obj]
    IN  IF k.t # "resolved" THEN Finish(S, fid, k)
        ELSE Finish(Callback(S, fid), fid, AsyncFn(Composed(h.f, h.g, k.v)))

\* a mapErr that maps rejections only:
\*   this.runPromise(helpers).catch((e) => { throw f(e) })
mapErr_producer_catch(S, fid) ==
    LET k == KidOut(S, fid)
        h == heap[S.frames[fid].obj]
    IN  IF k.t # "rejected" THEN Finish(S, fid, k)
        ELSE Finish(Callback(S, fid), fid, Rejected(CallFn(h.f, k.v, 0).v))

\* mapErr: try { return await this.runPromise(helpers) } catch (e) { throw f(e) }
mapErr_producer(S, fid) ==
    LET r == AwaitKid(S, fid)
        h == heap[S.frames[fid].obj]
    IN  IF r.t = "resolved" THEN Finish(S, fid, r)
        ELSE Finish(Callback(S, fid), fid, Rejected(CallFn(h.f, r.v, 0).v))

\* bimap: const result = await this.run(); liftResult(result.bimap(f, g))
bimap_producer(S, fid) ==
    LET r == AwaitKid(S, fid)
        h == heap[S.frames[fid].obj]
    IN  IF NoResult(r) THEN Finish(S, fid, Reject(r))
        ELSE LET m == Result_bimap(r.v, h.f, h.g)
             IN  Finish(Callback(S, fid), fid,
                    AsyncFn(IF m.t = "throw" THEN m ELSE helpers_liftResult(m.v)))

\* a chain that calls f on the error of a failed receiver as well
chain_producer_always(S, fid) ==
    LET r == AwaitKid(S, fid)
        h == heap[S.frames[fid].obj]
    IN  IF S.frames[fid].pc = 1
        THEN Finish(S, fid, AsyncFn(helpers_fromPromise(KidOut(S, fid))))
        ELSE FromCallback(Callback(S, fid), fid, CallFn(h.f, r.v, h.o))

\* chain: const value = await this.runPromise(helpers)
\*        return await helpers.fromPromise(f(value))
chain_producer(S, fid) ==
    LET r == AwaitKid(S, fid)
        h == heap[S.frames[fid].obj]
    IN  IF S.frames[fid].pc = 1
        THEN Finish(S, fid, AsyncFn(helpers_fromPromise(KidOut(S, fid))))
        ELSE IF r.t = "throw" THEN Finish(S, fid, Rejected(r.v))
        ELSE IF h.f = "id"
        THEN FromValue(Callback(S, fid), fid, CallFn(h.f, r.v, h.o).v)
        ELSE FromCallback(Callback(S, fid), fid, CallFn(h.f, r.v, h.o))

\* a chainErr that hands the value of a successful receiver to f as well
chainErr_producer_always(S, fid) ==
    LET r == AwaitKid(S, fid)
        h == heap[S.frames[fid].obj]
    IN  IF S.frames[fid].pc = 1
        THEN Finish(S, fid, AsyncFn(helpers_fromPromise(KidOut(S, fid))))
        ELSE FromCallback(Callback(S, fid), fid, CallFn(h.f, r.v, h.o))

\* chainErr: try { return await this.runPromise(helpers) }
\*           catch (e) { return helpers.fromPromise(f(e)) }
chainErr_producer(S, fid) ==
    LET r == AwaitKid(S, fid)
        h == heap[S.frames[fid].obj]
    IN  IF S.frames[fid].pc = 1
        THEN Finish(S, fid, AsyncFn(helpers_fromPromise(KidOut(S, fid))))
        ELSE IF r.t = "resolved" THEN Finish(S, fid, r)
        ELSE FromCallback(Callback(S, fid), fid, CallFn(h.f, r.v, h.o))

\* a swap that hands the Result on as it is
swap_producer_keep(S, fid) ==
    LET r == AwaitKid(S, fid)
    IN  IF NoResult(r) THEN Finish(S, fid, Reject(r))
        ELSE Finish(S, fid, AsyncFn(helpers_liftResult(r.v)))

\* swap: if (result.isOk()) throw result.extract()
\*       return helpers.liftResult(Ok(result.extract()))
swap_producer(S, fid) ==
    LET r == AwaitKid(S, fid)
    IN  IF NoResult(r) THEN Finish(S, fid, Reject(r))
        ELSE IF isOk(r.v)
        THEN Finish(S, fid, AsyncFn(helpers_throwE(extract(r.v))))
        ELSE Finish(S, fid, AsyncFn(helpers_liftResult(Ok(extract(r.v)))))

\* toMaybeAsync: const result = await this.run()
\*               return liftMaybe(result.toMaybe())
toMaybeAsync_producer(S, fid) ==
    LET r == AwaitKid(S, fid)
    IN  IF NoResult(r) THEN Finish(S, fid, Reject(r))
        ELSE Finish(S, fid, AsyncFn(liftMaybe(Result_toMaybe(r.v))))

\* an ifErr / ifOk that resolves to what the effect returned
ifErr_ifOk_producer_value(S, fid) ==
    LET r == AwaitKid(S, fid)
        h == heap[S.frames[fid].obj]
    IN  IF NoResult(r) THEN Finish(S, fid, Reject(r))
        ELSE IF (h.k = "ifErr") = isErr(r.v)
        THEN LET c == CallFn(h.f, extract(r.v), 0)
             IN  Finish(Callback(S, fid), fid,
                    AsyncFn(IF c.t = "throw" THEN c ELSE Resolved(c.v)))
        ELSE Finish(S, fid, AsyncFn(helpers_liftResult(r.v)))

\* ifErr / ifOk: const result = await this.run(); result.ifErr(effect);
\*               return helpers.liftResult(result)
ifErr_ifOk_producer(S, fid) ==
    LET r == AwaitKid(S, fid)
        h == heap[S.frames[fid].obj]
    IN  IF NoResult(r) THEN Finish(S, fid, Reject(r))
        ELSE IF (h.k = "ifErr") = isErr(r.v)
        THEN LET c == CallFn(h.f, extract(r.v), 0)
             IN  Finish(Callback(S, fid), fid,
                    AsyncFn(IF c.t = "throw" THEN c ELSE helpers_liftResult(r.v)))
        ELSE Finish(S, fid, AsyncFn(helpers_liftResult(r.v)))

\* a finally that runs the effect after an Ok only
finally_producer_onOk(S, fid) ==
    LET k == KidOut(S, fid)
        h == heap[S.frames[fid].obj]
        c == CallFn(h.f, Undef, 0)
        p == CASE c.t = "throw"      -> Rejected(c.v)
               [] c.v.ty = "promise" -> Rejected(c.v.l[1])
               [] OTHER              -> k
    IN  IF isResult(k.v) /\ isErr(k.v) THEN Finish(S, fid, helpers_fromPromise(k))
        ELSE Finish(Callback(S, fid), fid, helpers_fromPromise(p))

\* a finally that drops what the effect throws or rejects with
finally_producer_swallow(S, fid) ==
    Finish(Callback(S, fid), fid, helpers_fromPromise(KidOut(S, fid)))

\* finally: fromPromise(this.run().finally(effect))
finally_producer(S, fid) ==
    LET k == KidOut(S, fid)
        h == heap[S.frames[fid].obj]
        c == CallFn(h.f, Undef, 0)
        p == CASE c.t = "throw"      -> Rejected(c.v)
               [] c.v.ty = "promise" -> Rejected(c.v.l[1])
               [] OTHER              -> k
    IN  Finish(Callback(S, fid), fid, helpers_fromPromise(p))

\* an extend that resolves to what f returned, as it is
extend_producer_plain(S, fid) ==
    LET r == AwaitKid(S, fid)
        h == heap[S.frames[fid].obj]
    IN  IF NoResult(r) THEN Finish(S, fid, Reject(r))
        ELSE IF isOk(r.v)
        THEN LET c == CallFn(h.f, Lifted(r.v), 0)
             IN  Finish(Callback(S, fid), fid,
                    AsyncFn(IF c.t = "throw" THEN c ELSE Resolved(c.v)))
        ELSE Finish(S, fid, AsyncFn(helpers_liftResult(r.v)))

\* an extend that hands the receiver itself to f: f = x => x.orDefault(0)
\* runs the receiver once more
extend_producer_this(S, fid) ==
    LET r == AwaitKid(S, fid)
        h == heap[S.frames[fid].obj]
    IN  IF S.frames[fid].pc = 1
        THEN Finish(S, fid, Resolved(Result_orDefault(r.v, Num(0))))
        ELSE IF NoResult(r) THEN Finish(S, fid, Reject(r))
        ELSE IF isOk(r.v) /\ h.f = "orDefault"
        THEN Call([Callback(S, fid) EXCEPT !.frames[fid].pc = 1],
                  h.a, "run", fid, FALSE)
        ELSE IF isOk(r.v)
        THEN LET c == CallFn(h.f, Lifted(r.v), 0)
             IN  Finish(Callback(S, fid), fid,
                    AsyncFn(IF c.t = "throw" THEN c
                            ELSE helpers_liftResult(Ok(c.v))))
        ELSE Finish(S, fid, AsyncFn(helpers_liftResult(r.v)))

\* extend: const result = await this.run()
\*         if (result.isOk()) { const v = ResultAsync.liftResult(result)
\*                              return helpers.liftResult(Ok(f(v))) }
\*         return helpers.liftResult(result)
extend_producer(S, fid) ==
    LET r == AwaitKid(S, fid)
        h == heap[S.frames[fid].obj]
    IN  IF NoResult(r) THEN Finish(S, fid, Reject(r))
        ELSE IF isOk(r.v)
        THEN LET c == CallFn(h.f, Lifted(r.v), 0)
             IN  Finish(Callback(S, fid), fid,
                    AsyncFn(IF c.t = "throw" THEN c
                            ELSE helpers_liftResult(Ok(c.v))))
        ELSE Finish(S, fid, AsyncFn(helpers_liftResult(r.v)))

\* join: const result = await this
\*       if (result.isOk()) { const nestedResult = await result.extract()
\*                            return helpers.liftResult(nestedResult) }
\*       return helpers.liftResult(result)
join_producer(S, fid) ==
    LET r == AwaitKid(S, fid)
    IN  IF S.frames[fid].pc = 1
        THEN IF r.t = "throw" THEN Finish(S, fid, Reject(r))
             ELSE Finish(S, fid, AsyncFn(helpers_liftResult(r.v)))
        ELSE IF NoResult(r) THEN Finish(S, fid, Reject(r))
        ELSE IF isErr(r.v) THEN Finish(S, fid, AsyncFn(helpers_liftResult(r.v)))
        ELSE IF extract(r.v).ty = "ra"
        THEN Call([S EXCEPT !.frames[fid].pc = 1], extract(r.v).n, "then", fid, TRUE)
        ELSE Finish(S, fid, AsyncFn(helpers_liftResult(extract(r.v))))

\* an ap that awaits the value side whatever the function side resolved to
ap_producer_both(S, fid) ==
    LET f == S.frames[fid]
        r == AwaitKid(S, fid)
        h == heap[f.obj]
    IN  IF NoResult(r) THEN Finish(S, fid, Reject(r))
        ELSE IF f.pc = 0
        THEN Call([S EXCEPT !.frames[fid].pc = 1, !.frames[fid].acc = <<r.v>>],
                  h.a, "then", fid, TRUE)
        ELSE IF isErr(f.acc[1]) THEN Finish(S, fid, AsyncFn(helpers_liftResult(f.acc[1])))
        ELSE IF isOk(r.v)
        THEN Finish(S, fid, AsyncFn(ApplyFn(extract(f.acc[1]), extract(r.v))))
        ELSE Finish(S, fid, AsyncFn(helpers_liftResult(r.v)))

\* ap: const otherValue = await resultF
\*     if (otherValue.isOk()) { const thisValue = await this
\*        if (thisValue.isOk()) return otherValue.extract()(thisValue.extract())
\*        else return helpers.liftResult(thisValue) }
\*     return helpers.liftResult(otherValue)
ap_producer(S, fid) ==
    LET f == S.frames[fid]
        r == AwaitKid(S, fid)
        h == heap[f.obj]
    IN  IF NoResult(r) THEN Finish(S, fid, Reject(r))
        ELSE IF isErr(r.v) THEN Finish(S, fid, AsyncFn(helpers_liftResult(r.v)))
        ELSE IF f.pc = 0
        THEN Call([S EXCEPT !.frames[fid].pc = 1, !.frames[fid].acc = <<r.v>>],
                  h.a, "then", fid, TRUE)
        ELSE Finish(S, fid, AsyncFn(ApplyFn(extract(f.acc[1]), extract(r.v))))

\* an alt that keeps the receiver's Result if the argument fails as well
alt_producer_keep(S, fid) ==
    LET f == S.frames[fid]
        r == AwaitKid(S, fid)
        h == heap[f.obj]
    IN  IF f.pc = 1
        THEN IF r.t = "throw" THEN Finish(S, fid, Reject(r))
             ELSE IF isResult(r.v) /\ isErr(r.v)
             THEN Finish(S, fid, AsyncFn(helpers_liftResult(f.acc[1])))
             ELSE Finish(S, fid, AsyncFn(helpers_liftResult(r.v)))
        ELSE IF NoResult(r) THEN Finish(S, fid, Reject(r))
        ELSE IF isOk(r.v) THEN Finish(S, fid, Resolved(extract(r.v)))
        ELSE Call([S EXCEPT !.frames[fid].pc = 1, !.frames[fid].acc = <<r.v>>],
                  h.o, "then", fid, TRUE)

\* alt: const thisValue = await this
\*      if (thisValue.isOk()) return thisValue.extract()
\*      else { const otherValue = await other
\*             return helpers.liftResult(otherValue) }
alt_producer(S, fid) ==
    LET f == S.frames[fid]
        r == AwaitKid(S, fid)
        h == heap[f.obj]
    IN  IF f.pc = 1
        THEN IF r.t = "throw" THEN Finish(S, fid, Reject(r))
             ELSE Finish(S, fid, AsyncFn(helpers_liftResult(r.v)))
        ELSE IF NoResult(r) THEN Finish(S, fid, Reject(r))
        ELSE IF isOk(r.v) THEN Finish(S, fid, Resolved(extract(r.v)))
        ELSE Call([S EXCEPT !.frames[fid].pc = 1], h.o, "then", fid, TRUE)

\* a sequence that goes on to the next element after an Err and reports
\* the first Err at the end
sequence_producer_eager(S, fid) ==
    LET f == S.frames[fid]
        r == AwaitKid(S, fid)
        h == heap[f.obj]
    IN  IF NoResult(r) THEN Finish(S, fid, Reject(r))
        ELSE LET res == Append(f.acc, r.v)
                 S1  == [S EXCEPT !.frames[fid].acc = res]
             IN  IF f.pc < Len(h.l)
                 THEN Call([S1 EXCEPT !.frames[fid].pc = f.pc + 1],
                           h.l[f.pc + 1], "then", fid, TRUE)
                 ELSE Finish(S1, fid, AsyncFn(helpers_liftResult(Result_sequence(res))))

\* sequence: for await (const e of eas) {
\*              if (e.isErr()) return helpers.liftResult(e)
\*              res.push(e.extract()) }
\*           return helpers.liftResult(Ok(res))
sequence_producer(S, fid) ==
    LET f == S.frames[fid]
        r == AwaitKid(S, fid)
        h == heap[f.obj]
    IN  IF NoResult(r) THEN Finish(S, fid, Reject(r))
        ELSE IF isErr(r.v) THEN Finish(S, fid, AsyncFn(helpers_liftResult(r.v)))
        ELSE LET res == Append(f.acc, extract(r.v))
                 S1  == [S EXCEPT !.frames[fid].acc = res]
             IN  IF f.pc < Len(h.l)
                 THEN Call([S1 EXCEPT !.frames[fid].pc = f.pc + 1],
                           h.l[f.pc + 1], "then", fid, TRUE)
                 ELSE Finish(S1, fid, AsyncFn(helpers_liftResult(Ok(List(res)))))

\* The code of a producer after the await it is suspended at, up to the
\* next suspension or to its end.
Continue(S, fid) ==
    LET f == S.frames[fid]
        k == heap[f.obj].k
    IN  CASE f.pc = 9        -> Finish(S, fid, KidOut(S, fid))
          [] k = "map"       -> map_producer(S, fid)
          [] k = "mapErr"    -> mapErr_producer(S, fid)
          [] k = "bimap"     -> bimap_producer(S, fid)
          [] k = "chain"     -> chain_producer(S, fid)
          [] k = "chainErr"  -> chainErr_producer(S, fid)
          [] k = "swap"      -> swap_producer(S, fid)
          [] k = "toMaybeAsync" -> toMaybeAsync_producer(S, fid)
          [] k \in {"ifErr", "ifOk"} -> ifErr_ifOk_producer(S, fid)
          [] k = "finally"   -> finally_producer(S, fid)
          [] k = "extend"    -> extend_producer(S, fid)
          [] k = "join"      -> join_producer(S, fid)
          [] k = "ap"        -> ap_producer(S, fid)
          [] k = "alt"       -> alt_producer(S, fid)
          [] k = "sequence"  -> sequence_producer(S, fid)
          [] OTHER           -> S

\* the elements Promise.all has reacted to
Recorded(f) == {i \in 1..Len(f.acc) : f.acc[i] # Undef}

\* a Promise.all that keeps the values in the order they arrive in
ResolveElement_arrival(S, fid, i) ==
    LET f   == S.frames[fid]
        kid == S.frames[f.kids[i]]
        n   == Cardinality(Recorded(f)) + 1
    IN  IF kid.out.t # "resolved"
        THEN Finish(S, fid, helpers_fromPromise(Rejected(kid.out.v)))
        ELSE LET values == [f.acc EXCEPT ![n] = kid.out.v]
                 S1     == [S EXCEPT !.frames[fid].acc = values]
             IN  IF n < Len(f.kids) THEN S1
                 ELSE Finish(S1, fid,
                         Gathered(Kind(f), values))

\* an all that settles with the first Err it sees
ResolveElement_race(S, fid, i) ==
    LET f   == S.frames[fid]
        kid == S.frames[f.kids[i]]
    IN  IF kid.out.t # "resolved" \/ isErr(kid.out.v)
        THEN Finish(S, fid, helpers_fromPromise(Rejected(extract(kid.out.v))))
        ELSE LET values == [f.acc EXCEPT ![i] = kid.out.v]
                 S1     == [S EXCEPT !.frames[fid].acc = values]
             IN  IF Cardinality(Recorded(f)) + 1 < Len(f.kids) THEN S1
                 ELSE Finish(S1, fid,
                         Gathered(Kind(f), values))

\* Promise.all's reaction to its i-th element: store the value at index i,
\* resolve with the whole array once no element remains; a rejection
\* rejects.  Then Result.sequence, then helpers.liftResult.
ResolveElement(S, fid, i) ==
    LET f   == S.frames[fid]
        kid == S.frames[f.kids[i]]
    IN  IF kid.out.t # "resolved"
        THEN Finish(S, fid, helpers_fromPromise(Rejected(kid.out.v)))
        ELSE LET values == [f.acc EXCEPT ![i] = kid.out.v]
                 S1     == [S EXCEPT !.frames[fid].acc = values]
             IN  IF Cardinality(Recorded(f)) + 1 < Len(f.kids) THEN S1
                 ELSE IF \E j \in 1..Len(values) : ~isResult(values[j])
                 THEN Finish(S1, fid, helpers_fromPromise(Rejected(TypeError)))
                 ELSE Finish(S1, fid,
                         Gathered(Kind(f), values))

Install(S) ==
    /\ frames'  = S.frames
    /\ calls'   = S.calls
    /\ cbcalls' = S.cbcalls

\* ----------------------------------------------------------- the client
IsProducer(i) == heap[i].k = "prod"
IsNum(a) == heap[a].T = "num"

\* The client builds its producers first, applies one combinator to them
\* and then starts to run what it built.  It builds either one known
\* producer or unknown ones.
Building ==
    /\ Len(heap) < MaxObjs
    /\ \A i \in Objs : IsProducer(i) /\ runs[i] = 0

\* ... or it applies map to a map of a producer, swap to a swap of one
Stacking(k, T, a) ==
    /\ Len(heap) < MaxObjs
    /\ \A i \in Objs : runs[i] = 0
    /\ heap # <<>> /\ a = Len(heap)
    /\ k \in {"map", "swap"} /\ T = "num"
    /\ heap[a].k = k /\ heap[a].T = "num" /\ heap[a].g = "none"
    /\ IsProducer(heap[a].a)

Operands ==
    IF Building THEN Objs
    ELSE IF \E k \in {"map", "swap"} : Stacking(k, "num", Len(heap)) THEN {Len(heap)}
    ELSE {}

\* a constructor that calls the producer it is given at once
Allocate_eager(h) ==
    /\ Len(heap) < MaxObjs
    /\ heap'    = Append(heap, h)
    /\ calls'   = Append(calls, 1)
    /\ cbcalls' = Append(cbcalls, 0)
    /\ runs'    = Append(runs, 0)
    /\ UNCHANGED <<frames, sync>>

Allocate(h) ==
    /\ Len(heap) < MaxObjs
    /\ heap'    = Append(heap, h)
    /\ calls'   = Append(calls, 0)
    /\ cbcalls' = Append(cbcalls, 0)
    /\ runs'    = Append(runs, 0)
    /\ UNCHANGED <<frames, sync>>

Lists == UNION {[1..n -> Operands] : n \in 0..MaxList}

\* ResultAsync(runPromise), for a known producer
New(b) ==
    /\ heap = <<>>
    /\ Allocate(Obj("prod", b, "num", 0, 0, <<>>, "none", "none"))

\* ResultAsync(runPromise), for an unknown producer of values of type T;
\* a producer of functions, if the client builds one, is the first object
\* and a producer of a ResultAsync resolves to the object built before it
NewUnknown(T) ==
    /\ Building
    /\ \A i \in Objs : heap[i].b = Opaque
    /\ T \in {"fn", "thrower"} => heap = <<>>
    /\ T = "ra" => (heap # <<>> /\ IsNum(Len(heap)))
    /\ Allocate(Obj("prod", Opaque, T, 0, IF T = "ra" THEN Len(heap) ELSE 0,
                    <<>>, "none", "none"))

\* ResultAsync.liftResult(result)
StaticLiftResult(result) ==
    /\ heap = <<>>
    /\ Allocate(Obj("prod", [c |-> "liftResult", p |-> Resolved(result)],
                    "num", 0, 0, <<>>, "none", "none"))

\* a static fromPromise that calls f while it builds the value
StaticFromPromise_eager(fo) ==
    /\ heap = <<>>
    /\ Allocate_eager(Obj("prod", [c |-> "fromPf", p |-> fo], "num", 0, 0, <<>>, "none", "none"))

\* ResultAsync.fromPromise(f); fo is what a call of f yields
StaticFromPromise(fo) ==
    /\ heap = <<>>
    /\ Allocate(Obj("prod", [c |-> "fromPf", p |-> fo], "num", 0, 0, <<>>, "none", "none"))

\* The combinators only allocate (src/src/ResultAsync.ts:140-288): each
\* returns ResultAsync(producer) for a producer that closes over this and
\* the arguments.  The client's TypeScript types restrict the operands.
Derived(k, T, a, o, l, f, g) ==
    /\ Building \/ Stacking(k, T, a)
    /\ Allocate(Obj(k, Opaque, T, a, o, l, f, g))

Map(a, f)        == IsNum(a) /\ Derived("map", "num", a, 0, <<>>, f, "none")
\* a.map(x => g(f(x)))
MapComposed(a, f, g) ==
    IsNum(a) /\ IsProducer(a) /\ Derived("map", "num", a, 0, <<>>, f, g)
\* a.void() is a.map((_) => {})
Void(a)          == IsNum(a) /\ Derived("map", "undef", a, 0, <<>>, "void", "none")
MapErr(a, f)     == IsNum(a) /\ Derived("mapErr", "num", a, 0, <<>>, f, "none")
Bimap(a, f, g)   == IsNum(a) /\ Derived("bimap", "num", a, 0, <<>>, f, g)
Chain(a, f, o)   == IsNum(a) /\ Derived("chain", "num", a, o, <<>>, f, "none")
ChainErr(a, f, o) == IsNum(a) /\ Derived("chainErr", "num", a, o, <<>>, f, "none")
Join(a)          == heap[a].T = "ra" /\ Derived("join", "num", a, 0, <<>>, "none", "none")
\* a.chain(x => x), for a nested a
ChainId(a)       == heap[a].T = "ra" /\ Derived("chain", "num", a, 0, <<>>, "id", "none")
Ap(a, resultF)   == /\ IsNum(a) /\ heap[resultF].T \in {"fn", "thrower"}
                    /\ Derived("ap", "num", a, resultF, <<>>, "none", "none")
Alt(a, other)    == /\ IsNum(a) /\ IsNum(other)
                    /\ Derived("alt", "num", a, other, <<>>, "none", "none")
Extend(a, f)     == IsNum(a) /\ Derived("extend", "undef", a, 0, <<>>, f, "none")
Swap(a)          == IsNum(a) /\ Derived("swap", "num", a, 0, <<>>, "none", "none")
\* a.toMaybeAsync(): a MaybeAsync, which the client can only run
ToMaybeAsync(a)  == IsNum(a) /\ Derived("toMaybeAsync", "maybe", a, 0, <<>>, "none", "none")
IfErr(a, effect) == IsNum(a) /\ Derived("ifErr", "num", a, 0, <<>>, effect, "none")
IfOk(a, effect)  == IsNum(a) /\ Derived("ifOk", "num", a, 0, <<>>, effect, "none")
Finally(a, effect) == IsNum(a) /\ Derived("finally", "num", a, 0, <<>>, effect, "none")

\* ResultAsync.sequence(eas)
Sequence(eas) ==
    /\ \A i \in 1..Len(eas) : IsNum(eas[i])
    /\ Derived("sequence", "list", 0, 0, eas, "none", "none")

\* ResultAsync.all(eas)
All(eas) ==
    /\ \A i \in 1..Len(eas) : IsNum(eas[i])
    /\ Derived("all", "list", 0, 0, eas, "none", "none")

RECURSIVE Sum(_, _)
Sum(s, i) == IF i > Len(s) THEN 0 ELSE s[i] + Sum(s, i + 1)

\* a run() that calls the producer the first time only and hands out the
\* promise it kept afterwards
TopCall_once(S, a, via, sched) ==
    /\ Sum(runs, 1) < MaxRuns
    /\ runs' = [runs EXCEPT ![a] = @ + 1]
    /\ IF runs[a] = 0 THEN Install(Call(S, a, via, 0, sched))
       ELSE UNCHANGED <<frames, calls, cbcalls>>
    /\ UNCHANGED <<heap, sync>>

TopCall(S, a, via, sched) ==
    /\ Sum(runs, 1) < MaxRuns
    /\ runs' = [runs EXCEPT ![a] = @ + 1]
    /\ Install(Call(S, a, via, 0, sched))
    /\ UNCHANGED <<heap, sync>>

\* a run() that resolves to an Err at once while another call of the same
\* producer is in flight
Run_busy(a) ==
    IF \E fid \in Fids : frames[fid].obj = a /\ frames[fid].st # "done"
    THEN /\ Sum(runs, 1) < MaxRuns
         /\ runs' = [runs EXCEPT ![a] = @ + 1]
         /\ frames' = Append(frames, [Frame(a, "run", 0, "done") EXCEPT
                                         !.out = Resolved(Err(Boom))])
         /\ calls' = [calls EXCEPT ![a] = @ + 1]
         /\ UNCHANGED <<heap, cbcalls, sync>>
    ELSE TopCall(Machine, a, "run", FALSE)

\* a.run()
Run(a) == TopCall(Machine, a, "run", FALSE)

\* await a: a job will call a.then(resolve, reject)
AwaitThen(a) == TopCall(Machine, a, "then", TRUE)

\* The same two calls by a client that waits for one top-level call to
\* resolve before it makes the next, and drops the settled promises.
Idle == \A fid \in Fids : frames[fid].st = "done"

Forget == [Machine EXCEPT !.frames = <<>>]

Root == Len(heap)

RunAfter(a) == a = Root /\ Idle /\ TopCall(Forget, a, "run", FALSE)

AwaitAfter(a) == a = Root /\ Idle /\ TopCall(Forget, a, "then", TRUE)

\* how often e occurs in list
Count(list, e) == Cardinality({i \in 1..Len(list) : list[i] = e})

\* ResultAsync.errs(list) / ResultAsync.oks(list):
\*   Promise.all(list.map((x) => x.run())).then(Result.errs)
\* The call runs every element at once and returns a promise.  The client
\* makes it on producers nothing has run yet.
Gather(kind, list) ==
    LET f  == [Frame(0, kind, 0, "running") EXCEPT
                  !.acc = [i \in 1..Len(list) |-> Undef]]
        S0 == [Machine EXCEPT !.frames = <<f>>]
    IN  /\ Sum(runs, 1) = 0
        /\ \A i \in Objs : IsProducer(i)
        /\ \A i \in 1..Len(list) : IsNum(list[i])
        /\ Len(list) <= MaxRuns
        /\ runs' = [o \in Objs |-> runs[o] + Count(list, o)]
        /\ Install(IF list = <<>> THEN Finish(S0, 1, Gathered(kind, <<>>))
                   ELSE RunEach(S0, list, 1, 1))
        /\ UNCHANGED <<heap, sync>>

Errs(list) == Gather("errs", list)

Oks(list) == Gather("oks", list)

\* ----------------------------------------------------------- event loop
\* the job of an awaited thenable: then() calls run()
ThenJob(fid) ==
    /\ frames[fid].st = "scheduled"
    /\ Install(Enter(Machine, fid))
    /\ UNCHANGED <<heap, runs, sync>>

\* the promise of a client producer settles
Settle(fid, ending) ==
    /\ frames[fid].st = "running"
    /\ frames[fid].obj # 0
    /\ IsProducer(frames[fid].obj)
    /\ frames[fid].kids = <<>>
    /\ IF heap[frames[fid].obj].b = Opaque
       THEN Install(Settled(Machine, fid, ending))
       ELSE Install(Settled(Machine, fid, frames[fid].pend))
    /\ UNCHANGED <<heap, runs, sync>>

\* the job that resumes a combinator's producer after its await
Resume(fid) ==
    /\ frames[fid].st = "running"
    /\ Kind(frames[fid]) \notin Gathers
    /\ frames[fid].kids # <<>>
    /\ LastKid(Machine, fid).st = "done"
    /\ Install(Continue(Machine, fid))
    /\ UNCHANGED <<heap, runs, sync>>

\* the job Promise.all registered on its i-th element
AllElement(fid, i) ==
    /\ frames[fid].st = "running"
    /\ Kind(frames[fid]) \in Gathers
    /\ Cardinality(Recorded(frames[fid])) < Len(frames[fid].ord)
    /\ i = frames[fid].ord[Cardinality(Recorded(frames[fid])) + 1]
    /\ Install(ResolveElement(Machine, fid, i))
    /\ UNCHANGED <<heap, runs, sync>>

\* ------------------------------------------------ the synchronous Result
\* sync is the call of a method of a Result the client makes outside any
\* ResultAsync: the receiver, the arguments, what the call returned or
\* threw (out) and how often it called the callback it was given (fcalls).

\* An array is an object: n is its address, l its elements.  Two arrays at
\* different addresses can hold the same elements.
Arr(a, s) == [ty |-> "list", n |-> a, l |-> s]

Arrays == {Arr(a, <<Num((a + 1) \div 2)>>) : a \in 1..MaxVal + 1}

\* the payloads of the Results the client builds: numbers, functions,
\* an Error and arrays
SyncPayloads == Vals \cup {Fn(i) : i \in 1..MaxVal} \cup {Boom} \cup Arrays

SyncResults == {Ok(v) : v \in SyncPayloads} \cup {Err(v) : v \in SyncPayloads}

\* x === y: numbers are compared by value (n), objects by address (n)
StrictEquals(x, y) == x.ty = y.ty /\ x.n = y.n

\* x instanceof Error
instanceofError(x) == x.ty \in {"Error", "TypeError"}

\* what a method call comes to: out, and the calls of the callback
Ret(out, n) == [out |-> out, fcalls |-> n]

NoCall == [op |-> "none", this |-> Undef, other |-> Undef, f |-> "none",
           g |-> "none", out |-> NoOutcome, fcalls |-> 0]

\* what a synchronous call of a client callback comes to
Returned(c) == IF c.t = "resolved" THEN Resolved(c.v) ELSE Thrown(c.v)

\* a map that maps the payload of an Err as well
Result_map_always(r, f) ==
    LET c == CallFn(f, extract(r), 0)
    IN  Ret(IF c.t # "resolved" THEN Thrown(c.v)
            ELSE Resolved(IF isOk(r) THEN Ok(c.v) ELSE Err(c.v)), 1)

\* Ok.map (src/unnamed/part_000:187-189): ok(f(this.__value))
\* Err.map (320-322): this
Result_map(r, f) ==
    IF isErr(r) THEN Ret(Resolved(r), 0)
    ELSE LET c == CallFn(f, extract(r), 0)
         IN  Ret(IF c.t = "resolved" THEN Resolved(Ok(c.v)) ELSE Thrown(c.v), 1)

\* Ok.chain (203-205): f(this.__value);  Err.chain (336-338): this
Result_chain(r, f) ==
    IF isErr(r) THEN Ret(Resolved(r), 0)
    ELSE Ret(Returned(CallFn(f, extract(r), 0)), 1)

\* r.map(f).map(g), as the client writes it
Result_mapMap(r, f, g) ==
    LET a == Result_map(r, f)
    IN  IF a.out.t = "throw" THEN a
        ELSE LET b == Result_map(a.out.v, g)
             IN  Ret(b.out, a.fcalls + b.fcalls)

\* this.map(other.extract()): the callback is the function other holds
Result_mapFn(r, fn) ==
    IF isErr(r) THEN Ret(Resolved(r), 0)
    ELSE LET c == ApplyFn(fn, extract(r))
         IN  Ret(IF c.t = "resolved" THEN Resolved(Ok(c.v)) ELSE Thrown(c.v), 1)

\* an ap whose Err receiver always returns itself
Result_ap_receiver(r, other) ==
    IF isOk(r)
    THEN IF isOk(other) THEN Result_mapFn(r, extract(other))
         ELSE Ret(Resolved(other), 0)
    ELSE Ret(Resolved(r), 0)

\* Ok.ap (195-197): other.isOk() ? this.map(other.extract()) : other
\* Err.ap (328-330): other.isErr() ? other : this
Result_ap(r, other) ==
    IF isOk(r)
    THEN IF isOk(other) THEN Result_mapFn(r, extract(other))
         ELSE Ret(Resolved(other), 0)
    ELSE IF isErr(other) THEN Ret(Resolved(other), 0)
         ELSE Ret(Resolved(r), 0)

\* true / false
Bool(b) == [ty |-> "bool", n |-> IF b THEN 1 ELSE 0, l |-> <<>>]

\* elements compared element by element, whatever the addresses
DeepEquals(x, y) ==
    x.ty = y.ty /\ IF x.ty = "list" THEN x.l = y.l ELSE x.n = y.n

\* an equals that compares the payloads element by element
Result_equals_deep(r, other) ==
    Ret(Resolved(Bool(/\ isOk(r) = isOk(other)
                      /\ DeepEquals(extract(r), extract(other)))), 0)

\* Ok.equals (199-201): other.isOk() ? this.__value === other.extract() : false
\* Err.equals (332-334): other.isErr() ? other.extract() === this.__value : false
Result_equals(r, other) ==
    IF isOk(r)
    THEN Ret(Resolved(Bool(IF isOk(other)
                           THEN StrictEquals(extract(r), extract(other))
                           ELSE FALSE)), 0)
    ELSE Ret(Resolved(Bool(IF isErr(other)
                           THEN StrictEquals(extract(other), extract(r))
                           ELSE FALSE)), 0)

\* new Error('Result#unsafeCoerce was ran on a Err'): a new object, at an
\* address no payload has
GenericError == [ty |-> "Error", n |-> MaxVal + 2, l |-> <<>>]

\* an unsafeCoerce that throws the payload whatever it is
Result_unsafeCoerce_payload(r) ==
    IF isOk(r) THEN Ret(Resolved(extract(r)), 0)
    ELSE Ret(Thrown(extract(r)), 0)

\* Ok.unsafeCoerce (231-233): return this.__value
\* Err.unsafeCoerce (364-370): throw the payload if it is an Error, a new
\* Error otherwise
Result_unsafeCoerce(r) ==
    IF isOk(r) THEN Ret(Resolved(extract(r)), 0)
    ELSE IF instanceofError(extract(r)) THEN Ret(Thrown(extract(r)), 0)
    ELSE Ret(Thrown(GenericError), 0)

\* an alt whose receiver wins also when it is an Err
Result_alt_first(r, other) == Ret(Resolved(r), 0)

\* Ok.alt (215-217): this;  Err.alt (348-350): other
Result_alt(r, other) ==
    IF isOk(r) THEN Ret(Resolved(r), 0) ELSE Ret(Resolved(other), 0)

\* The client picks the receiver and the arguments ...
Ready == sync.op = "none" /\ sync.this # Undef

Called(op, ret) ==
    /\ Ready
    /\ sync' = [sync EXCEPT !.op = op, !.out = ret.out, !.fcalls = ret.fcalls]
    /\ UNCHANGED <<heap, frames, calls, cbcalls, runs>>

\* The client's types: a callback that adds is given a number.
Typed(f, x) == f \in {"inc", "ok"} => x.ty = "num"

\* this.ap(other); the types make an Ok argument hold a function of the
\* receiver's value
DoAp ==
    /\ isResult(sync.other)
    /\ isOk(sync.other) => extract(sync.other).ty = "fn"
    /\ (isOk(sync.this) /\ isOk(sync.other)) => extract(sync.this).ty = "num"
    /\ Called("ap", Result_ap(sync.this, sync.other))

\* this.map(f)
DoMap ==
    /\ isOk(sync.this) => Typed(sync.f, extract(sync.this))
    /\ Called("map", Result_map(sync.this, sync.f))

\* this.chain(f), f returning a Result
DoChain ==
    /\ sync.f \in {"ok", "err", "throw"}
    /\ isOk(sync.this) => Typed(sync.f, extract(sync.this))
    /\ Called("chain", Result_chain(sync.this, sync.f))

\* this.map(f).map(g), f and g functions of numbers
DoMapMap ==
    /\ sync.f \in {"id", "inc", "throw"}
    /\ isOk(sync.this) => extract(sync.this).ty = "num"
    /\ Called("mapMap", Result_mapMap(sync.this, sync.f, sync.g))

\* this.equals(other)
DoEquals ==
    /\ isResult(sync.other)
    /\ Called("equals", Result_equals(sync.this, sync.other))

\* this.unsafeCoerce()
DoUnsafeCoerce == Called("unsafeCoerce", Result_unsafeCoerce(sync.this))

\* this.toMaybe()
DoToMaybe == Called("toMaybe", Ret(Resolved(Result_toMaybe(sync.this)), 0))

\* this.errToMaybe()
DoErrToMaybe == Called("errToMaybe", Ret(Resolved(Result_errToMaybe(sync.this)), 0))

\* this.alt(other)
DoAlt ==
    /\ isResult(sync.other)
    /\ Called("alt", Result_alt(sync.this, sync.other))

\* Result.sequence(list), Result.errs(list), Result.oks(list): the list is
\* the argument the client built
DoResultSequence ==
    /\ sync.this.ty = "list"
    /\ Called("sequence", Ret(Resolved(Result_sequence(sync.this.l)), 0))

DoResultErrs ==
    /\ sync.this.ty = "list"
    /\ Called("errs", Ret(Resolved(List(Result_errs(sync.this.l))), 0))

DoResultOks ==
    /\ sync.this.ty = "list"
    /\ Called("oks", Ret(Resolved(List(Result_oks(sync.this.l))), 0))

\* the client has built the receiver and its arguments
Built(others, fs, gs) ==
    /\ heap = <<>>
    /\ frames = <<>>
    /\ calls = <<>>
    /\ cbcalls = <<>>
    /\ runs = <<>>
    /\ \E r \in SyncResults, o \in others, f \in fs, g \in gs :
          sync = [NoCall EXCEPT !.this = r, !.other = o, !.f = f, !.g = g]

InitResult ==
    Built(SyncResults, {"id", "inc", "throw", "ok", "err"}, {"inc", "throw"})

\* ... and calls one method on them.
NextResult ==
    \/ DoAp
    \/ DoAlt
    \/ DoMap
    \/ DoChain
    \/ DoMapMap
    \/ DoEquals
    \/ DoUnsafeCoerce

SpecResult == InitResult /\ [][NextResult]_vars

\* The lists of Results the client hands to the statics of Result.
ResultLists == UNION {[1..n -> Results] : n \in 0..MaxList + 1}

InitList ==
    /\ heap = <<>>
    /\ frames = <<>>
    /\ calls = <<>>
    /\ cbcalls = <<>>
    /\ runs = <<>>
    /\ \E l \in ResultLists : sync = [NoCall EXCEPT !.this = List(l)]

NextList ==
    \/ DoResultSequence
    \/ DoResultErrs
    \/ DoResultOks

SpecList == InitList /\ [][NextList]_vars

Init ==
    /\ heap = <<>>
    /\ frames = <<>>
    /\ calls = <<>>
    /\ cbcalls = <<>>
    /\ runs = <<>>
    /\ sync = NoCall

NewProducer  == \E b \in Behaviours : New(b)
NewCatching  == \E b \in Catching : New(b)
LiftResult   == \E r \in Results : StaticLiftResult(r)
FromPromise  == \E fo \in FromPromiseArgs : StaticFromPromise(fo)
NewAny       == \E T \in {"num", "fn", "ra"} : NewUnknown(T)
\* a producer of a function that throws when it is applied
NewThrower   == NewUnknown("thrower")
BuildMap     == \E a \in Operands : \E f \in {"id", "inc", "throw"} : Map(a, f)
BuildMapComposed == \E a \in Operands : \E f, g \in {"inc", "throw"} : MapComposed(a, f, g)
BuildVoid    == \E a \in Operands : Void(a)
BuildMapErr  == \E a \in Operands : \E f \in {"inc", "throw"} : MapErr(a, f)
BuildBimap   == \E a \in Operands : \E f, g \in {"inc", "throw"} : Bimap(a, f, g)
BuildChain   == \E a \in Operands : \E f \in {"ok", "err", "rej", "throw"} : Chain(a, f, 0)
BuildChainRA == \E a, o \in Operands : Chain(a, "toRA", o)
BuildChainErr == \E a \in Operands : \E f \in {"ok", "err", "rej", "throw"} : ChainErr(a, f, 0)
BuildChainErrRA == \E a, o \in Operands : ChainErr(a, "toRA", o)
BuildJoin    == \E a \in Operands : Join(a)
BuildChainId == \E a \in Operands : ChainId(a)
BuildAp      == \E a, resultF \in Operands : Ap(a, resultF)
BuildAlt     == \E a, other \in Operands : Alt(a, other)
BuildExtend  == \E a \in Operands : \E f \in {"noop", "throw", "orDefault", "reject"} : Extend(a, f)
BuildSwap    == \E a \in Operands : Swap(a)
BuildToMaybeAsync == \E a \in Operands : ToMaybeAsync(a)
BuildIfErr   == \E a \in Operands : \E f \in {"noop", "throw"} : IfErr(a, f)
BuildIfOk    == \E a \in Operands : \E f \in {"noop", "throw"} : IfOk(a, f)
BuildFinally == \E a \in Operands : \E f \in {"noop", "throw", "reject"} : Finally(a, f)
BuildSequence == \E eas \in Lists : Sequence(eas)
BuildAll     == \E eas \in Lists : All(eas)
RunTop       == heap # <<>> /\ Run(Root)
RunNext      == \E a \in Objs : RunAfter(a)
AwaitNext    == \E a \in Objs : AwaitAfter(a)
DoThenJob    == \E fid \in Fids : ThenJob(fid)
DoSettle     == \E fid \in Fids : \E e \in Endings(frames[fid].obj) : Settle(fid, e)
DoResume     == \E fid \in Fids : Resume(fid)
DoErrs       == \E list \in Lists : Errs(list)
DoOks        == \E list \in Lists : Oks(list)
DoAllElement == \E fid \in Fids : \E i \in 1..MaxObjs : AllElement(fid, i)

\* the client builds producers, applies a combinator and runs the result
Next ==
    \/ NewProducer
    \/ LiftResult
    \/ FromPromise
    \/ NewAny
    \/ BuildMap
    \/ BuildMapComposed
    \/ BuildVoid
    \/ BuildMapErr
    \/ BuildBimap
    \/ BuildChain
    \/ BuildChainRA
    \/ BuildChainErr
    \/ BuildChainErrRA
    \/ BuildJoin
    \/ BuildAp
    \/ BuildAlt
    \/ BuildExtend
    \/ BuildSwap
    \/ BuildIfErr
    \/ BuildIfOk
    \/ BuildFinally
    \/ BuildSequence
    \/ BuildAll
    \/ DoErrs
    \/ DoOks
    \/ RunNext
    \/ AwaitNext
    \/ DoThenJob
    \/ DoSettle
    \/ DoResume
    \/ DoAllElement

Spec == Init /\ [][Next]_vars

\* The client builds a producer with a try / catch of its own and runs or
\* awaits it.
NextCatch ==
    \/ NewCatching
    \/ RunNext
    \/ AwaitNext
    \/ DoThenJob
    \/ DoSettle

SpecCatch == Init /\ [][NextCatch]_vars

\* The client builds a nested ResultAsync (a producer that resolves to a
\* ResultAsync built before) and flattens it, with join() or chain(x => x).
NextJoin ==
    \/ NewAny
    \/ BuildJoin
    \/ BuildChainId
    \/ RunNext
    \/ AwaitNext
    \/ DoThenJob
    \/ DoSettle
    \/ DoResume

SpecJoin == Init /\ [][NextJoin]_vars

\* The client builds unknown producers, hands a list of them to all and
\* runs or awaits the result; the elements settle in any order.
NextAll ==
    \/ NewAny
    \/ BuildAll
    \/ RunNext
    \/ AwaitNext
    \/ DoThenJob
    \/ DoSettle
    \/ DoAllElement

SpecAll == Init /\ [][NextAll]_vars

\* The client builds an unknown producer of functions and unknown producers
\* of numbers, applies ap and runs or awaits the result.
NextAp ==
    \/ NewAny
    \/ NewThrower
    \/ BuildAp
    \/ RunNext
    \/ AwaitNext
    \/ DoThenJob
    \/ DoSettle
    \/ DoResume

SpecAp == Init /\ [][NextAp]_vars

\* The client builds unknown producers, derives a value from them with one
\* of the methods and runs it, one run after the other.
NextOnce ==
    \/ NewAny
    \/ BuildMap
    \/ BuildMapErr
    \/ BuildBimap
    \/ BuildChain
    \/ BuildChainErr
    \/ BuildAlt
    \/ BuildExtend
    \/ BuildIfErr
    \/ BuildIfOk
    \/ BuildSwap
    \/ BuildFinally
    \/ BuildJoin
    \/ BuildToMaybeAsync
    \/ RunNext
    \/ DoThenJob
    \/ DoSettle
    \/ DoResume

SpecOnce == Init /\ [][NextOnce]_vars

\* The conversions to Maybe: the client converts a Result it built, or it
\* builds a.toMaybeAsync() over a known producer and runs it.
InitMaybe == Init \/ Built({Undef}, {"none"}, {"none"})

NextMaybe ==
    \/ DoToMaybe
    \/ DoErrToMaybe
    \/ NewProducer
    \/ LiftResult
    \/ FromPromise
    \/ BuildToMaybeAsync
    \/ RunNext
    \/ DoSettle
    \/ DoResume

SpecMaybe == InitMaybe /\ [][NextMaybe]_vars

\* The client builds one known (deterministic) producer, may map over it,
\* and calls run() on the value it built without waiting for the earlier
\* calls: the calls are in flight together and their jobs interleave.
NextRun ==
    \/ NewProducer
    \/ LiftResult
    \/ FromPromise
    \/ BuildMap
    \/ RunTop
    \/ DoSettle
    \/ DoResume

SpecRun == Init /\ [][NextRun]_vars

\* ================================================================ claims
Job == DoThenJob \/ DoSettle \/ DoResume \/ DoAllElement

\* the frames of calls made through run() or then()
RunFrames == {fid \in Fids : frames[fid].via \in {"run", "then"}}

Known(obj) == IsProducer(obj) /\ heap[obj].b # Opaque

\* C1: whatever the producer does (completes, calls throwE, short-circuits
\* through liftResult / fromPromise, returns a rejected promise, throws
\* before it returns a promise), the promise run() returns resolves to a
\* Result: it is never rejected, run() never throws, and as long as a call
\* is unresolved a job of the event loop is pending.
C1_RunAlwaysResolves ==
    /\ \A fid \in RunFrames :
          frames[fid].st = "done" =>
             /\ frames[fid].out.t = "resolved"
             /\ isResult(frames[fid].out.v)
    /\ Idle \/ ENABLED Job

\* a run() of a producer that throws before it returns a promise has
\* resolved, and so has one of a producer that returns a rejected promise
C1_Witness ==
    \E fid \in RunFrames :
       /\ frames[fid].st = "done"
       /\ frames[fid].via = "run"
       /\ heap[frames[fid].obj].b.c = "throw"
       /\ frames[fid].out = Resolved(Err(Num(MaxVal)))

\* The failure a known producer's call ends in, from what the client wrote.
Fails(b) ==
    \/ b.c \in {"throwE", "reject", "throw"}
    \/ b.p.t \in {"rejected", "throw"}
    \/ isResult(b.p.v) /\ isErr(b.p.v)

Payload(b) == IF isResult(b.p.v) THEN extract(b.p.v) ELSE b.p.v

\* C2: run() resolves to Err(e) whether the producer called throwE(e),
\* used liftResult(Err(e)), awaited fromPromise of a promise resolving to
\* Err(e) or rejected with e, returned a promise rejected with e or threw
\* e; it resolves to Ok(v) exactly when the producer completes normally
\* with v.  The Result is a function of (failed?, payload) alone, so it
\* does not tell the causes apart.
C2_FailureUnification ==
    \A fid \in RunFrames :
       (frames[fid].st = "done" /\ Known(frames[fid].obj)) =>
          LET b == heap[frames[fid].obj].b
          IN  frames[fid].out = Resolved(IF Fails(b) THEN Err(Payload(b))
                                         ELSE Ok(Payload(b)))

\* a run of liftResult(Err(e)) has resolved to Err(e)
C2_Witness ==
    \E fid \in RunFrames :
       /\ frames[fid].st = "done"
       /\ heap[frames[fid].obj].b = [c |-> "lift", p |-> Resolved(Err(Num(1)))]
       /\ frames[fid].out = Resolved(Err(Num(1)))


\* C3: constructing a ResultAsync (constructor, static liftResult /
\* fromPromise / sequence / all, any combinator) calls no producer and no
\* client callback: as long as the client has not called run() or awaited
\* a value, no producer and no callback has been called and no call of a
\* producer is pending.
C3_Laziness ==
    Sum(runs, 1) = 0 =>
       /\ \A fid \in Fids : frames[fid].obj = 0
       /\ \A o \in Objs : calls[o] = 0 /\ cbcalls[o] = 0

\* all([a, b]) has been built over two producers and nothing has run
C3_Witness ==
    /\ Len(heap) = MaxObjs
    /\ heap[Root].k = "all"
    /\ Len(heap[Root].l) = MaxList
    /\ Sum(runs, 1) = 0
    /\ \A o \in Objs : calls[o] = 0

\* the top-level call in progress has not entered its producer yet
Waiting == IF frames # <<>> /\ frames[1].st = "scheduled" THEN 1 ELSE 0

\* the objects whose producer every call of obj's producer calls
Must(obj) ==
    LET h == heap[obj]
    IN  CASE h.k \in {"map", "mapErr", "chain", "chainErr", "bimap", "extend",
                      "swap", "ifErr", "ifOk", "finally", "alt", "join"} -> {h.a}
          [] h.k = "ap" -> {h.o}
          [] h.k = "sequence" -> IF h.l = <<>> THEN {} ELSE {h.l[1]}
          [] h.k = "all" -> {h.l[i] : i \in 1..Len(h.l)}
          [] OTHER -> {}

\* C4: nothing is cached.  Every run() (or await) of a value calls its
\* producer again, so the producer has been called as often as the value
\* has been run; and once the runs have resolved, every producer the value
\* closes over and starts with has been called at least that often too.
C4_NoCaching ==
    /\ heap # <<>> => calls[Root] + Waiting = runs[Root]
    /\ (heap # <<>> /\ Idle) =>
          \A o \in Must(Root) : calls[o] >= runs[Root]

\* a.map(f) has been run MaxRuns times and a's producer was called each time
C4_Witness ==
    /\ heap # <<>>
    /\ Idle
    /\ heap[Root].k = "map"
    /\ runs[Root] = MaxRuns
    /\ calls[heap[Root].a] = MaxRuns
    /\ cbcalls[Root] = MaxRuns

\* the calls of the producer of a sequence / an all
FramesOf(kind) == {fid \in Fids : Kind(frames[fid]) = kind}

\* the call made for the j-th element, and what its run resolved to
Kid(fid, j) == frames[frames[fid].kids[j]]

KidResult(fid, j) == Kid(fid, j).out.v

Settles(fid, j) == Kid(fid, j).st = "done"

\* C5: a running sequence(list) runs the elements in input order, one at a
\* time: element j + 1 is called only after the run of element j resolved
\* to Ok.  At the first Err the result is that Err and no later element is
\* called (during the first run, an object that only occurs later in the
\* list has not been called at all).  If every element is Ok the result is
\* Ok of the values in input order; sequence([]) resolves to Ok([]).
C5_SequenceInOrder ==
    \A fid \in FramesOf("sequence") :
       LET f == frames[fid]
           l == heap[f.obj].l
           n == Len(f.kids)
       IN  /\ n <= Len(l)
           /\ \A j \in 1..n : Kid(fid, j).obj = l[j]
           /\ \A j \in 2..n : Settles(fid, j - 1) /\ isOk(KidResult(fid, j - 1))
           /\ runs[f.obj] = 1 =>
                 \A i \in (n + 1)..Len(l) :
                    (\A j \in 1..n : l[j] # l[i]) => calls[l[i]] = 0
           /\ f.st = "done" =>
                 IF l = <<>> THEN f.out = Resolved(Ok(List(<<>>)))
                 ELSE /\ Settles(fid, n)
                      /\ IF isErr(KidResult(fid, n))
                         THEN f.out = Resolved(KidResult(fid, n))
                         ELSE /\ n = Len(l)
                              /\ f.out = Resolved(Ok(List(
                                    [j \in 1..n |-> extract(KidResult(fid, j))])))

\* sequence([a, b]) resolved to a's Err and b was never called
C5_Witness ==
    \E fid \in FramesOf("sequence") :
       LET l == heap[frames[fid].obj].l
       IN  /\ frames[fid].st = "done"
           /\ Len(l) = 2 /\ l[1] # l[2]
           /\ Len(frames[fid].kids) = 1
           /\ frames[fid].out = Resolved(Err(Num(l[1])))
           /\ calls[l[1]] = 1 /\ calls[l[2]] = 0

\* the positions of the elements whose run resolved to Err
Failed(fid) ==
    {j \in 1..Len(frames[fid].kids) : Settles(fid, j) /\ isErr(KidResult(fid, j))}

Min(S) == CHOOSE i \in S : \A j \in S : i <= j

\* C6: a running all(list) calls then on every element as soon as its
\* producer is entered, and has called the producer of every element by
\* the time it resolves, whether or not an element failed.  If every
\* element is Ok the result is Ok of the values in input order, whatever
\* order they settled in; if exactly one element failed the result is its
\* Err (all([A, B]), A fails, B succeeds: B is called, the result is A's
\* Err); all([]) resolves to Ok([]).
C6_AllRunsEveryElement ==
    \A fid \in FramesOf("all") :
       LET f == frames[fid]
           l == heap[f.obj].l
           n == Len(f.kids)
       IN  /\ f.st \in {"running", "done"} =>
                 /\ n = Len(l)
                 /\ \A j \in 1..n : Kid(fid, j).obj = l[j]
           /\ f.st = "done" =>
                 /\ \A j \in 1..n : Settles(fid, j) /\ calls[l[j]] >= 1
                 /\ Failed(fid) = {} =>
                       f.out = Resolved(Ok(List(
                                  [j \in 1..n |-> extract(KidResult(fid, j))])))
                 /\ Cardinality(Failed(fid)) = 1 =>
                       f.out = Resolved(KidResult(fid, Min(Failed(fid))))

\* all([a, b]) where b settled before a and both are Ok: Ok([a's, b's])
C6_Witness ==
    \E fid \in FramesOf("all") :
       LET l == heap[frames[fid].obj].l
       IN  /\ frames[fid].st = "done"
           /\ Len(l) = 2 /\ l[1] # l[2]
           /\ frames[fid].ord = <<2, 1>>
           /\ frames[fid].out = Resolved(Ok(List(<<Num(l[1]), Num(l[2])>>)))

\* the element whose failure came first in time
FirstFailed(fid) ==
    LET ord == frames[fid].ord
        t   == Min({k \in 1..Len(ord) : ord[k] \in Failed(fid)})
    IN  ord[t]

C8_AltShortCircuit ==
    \A fid \in FramesOf("alt") :
       LET f == frames[fid]
           h == heap[f.obj]
           n == Len(f.kids)
       IN  /\ n <= 2
           /\ n >= 1 => Kid(fid, 1).obj = h.a
           /\ n = 2 => /\ Settles(fid, 1) /\ isErr(KidResult(fid, 1))
                       /\ Kid(fid, 2).obj = h.o
           /\ (runs[f.obj] = 1 /\ n <= 1 /\ h.o # h.a) => calls[h.o] = 0
           /\ f.st = "done" =>
                 /\ Settles(fid, n)
                 /\ IF isOk(KidResult(fid, 1))
                    THEN n = 1 /\ f.out = Resolved(KidResult(fid, 1))
                    ELSE n = 2 /\ f.out = Resolved(KidResult(fid, 2))

\* a.alt(b) where both failed: the result is b's Err
C8_Witness ==
    \E fid \in FramesOf("alt") :
       LET h == heap[frames[fid].obj]
       IN  /\ frames[fid].st = "done"
           /\ h.a # h.o
           /\ KidResult(fid, 1) = Err(Num(h.a))
           /\ frames[fid].out = Resolved(Err(Num(h.o)))

\* C9: a running v.ap(fn) runs the function side fn first.  If fn resolves
\* to Err, v is not called (during the first run v's producer has not been
\* called at all) and the result is fn's Err.  If fn resolves to Ok(g), v
\* is run then: the result is v's Err if v fails and Ok(g(value)) if not.
C9_ApFunctionSideFirst ==
    \A fid \in FramesOf("ap") :
       LET f == frames[fid]
           h == heap[f.obj]
           n == Len(f.kids)
       IN  /\ n <= 2
           /\ n >= 1 => Kid(fid, 1).obj = h.o
           /\ n = 2 => /\ Settles(fid, 1) /\ isOk(KidResult(fid, 1))
                       /\ Kid(fid, 2).obj = h.a
           /\ (runs[f.obj] = 1 /\ n <= 1) => calls[h.a] = 0
           /\ f.st = "done" =>
                 /\ Settles(fid, n)
                 /\ IF isErr(KidResult(fid, 1))
                    THEN n = 1 /\ f.out = Resolved(KidResult(fid, 1))
                    ELSE /\ n = 2
                         /\ IF isErr(KidResult(fid, 2))
                            THEN f.out = Resolved(KidResult(fid, 2))
                            ELSE f.out =
                                   Resolved(Ok(Num(extract(KidResult(fid, 2)).n
                                        + 10 * extract(KidResult(fid, 1)).n)))

\* v.ap(fn) where fn failed: v was never called, the result is fn's Err
C9_Witness ==
    \E fid \in FramesOf("ap") :
       LET h == heap[frames[fid].obj]
       IN  /\ frames[fid].st = "done"
           /\ frames[fid].out = Resolved(Err(Num(h.o)))
           /\ calls[h.o] = 1
           /\ calls[h.a] = 0

\* C10: a running a.chain(f).  If a fails with e the result is Err(e) and
\* f is not called (during the first run f has not been called at all).
\* If a resolves to v, f(v) is called once and the result is the Result
\* f(v) resolves to (for f(v) a ResultAsync: the Result its run resolves
\* to), so liftResult(Ok(v)).chain(f) runs to the Result of f(v); an
\* exception or a rejection of f(v) becomes Err of what was thrown.
C10_Chain ==
    \A fid \in FramesOf("chain") :
       LET f == frames[fid]
           h == heap[f.obj]
           a == Kid(fid, 1).out
           c == CallFn(h.f, a.v, h.o)
       IN  f.st = "done" =>
              IF a.t # "resolved"
              THEN /\ f.out = Resolved(Err(a.v))
                   /\ Len(f.kids) = 1
                   /\ runs[f.obj] = 1 => cbcalls[f.obj] = 0
              ELSE /\ runs[f.obj] = 1 => cbcalls[f.obj] = 1
                   /\ f.out = Resolved(
                         CASE c.t # "resolved" -> Err(c.v)
                           [] c.v.ty = "ra"    -> KidResult(fid, 2)
                           [] OTHER            -> c.v)

\* liftResult(Ok(1)).chain(x => Promise.resolve(Ok(x + 1))) ran to Ok(2)
C10_Witness ==
    \E fid \in FramesOf("chain") :
       LET h == heap[frames[fid].obj]
       IN  /\ frames[fid].st = "done"
           /\ heap[h.a].b = [c |-> "liftResult", p |-> Resolved(Ok(Num(1)))]
           /\ h.f = "ok"
           /\ cbcalls[frames[fid].obj] = 1
           /\ frames[fid].out = Resolved(Ok(Num(2)))

\* the top-level calls: those the client made itself
TopFrames(kind) == {fid \in FramesOf(kind) : frames[fid].parent = 0}

\* what a.map(x => g(f(x))) has to run to, a being what a's producer
\* ended in (g = "none": a.map(f))
MapOf(a, f, g) ==
    IF a.t # "resolved" THEN Err(a.v)
    ELSE LET c == Composed(f, g, a.v)
         IN  IF c.t = "resolved" THEN Ok(c.v) ELSE Err(c.v)

\* C11: a.map(f) runs to Ok(f(v)) if a's producer resolves to v, to the
\* unchanged Err(e) without a call of f if it fails with e, and to Err(x)
\* if f throws x; so a.map(id) runs to the Result a runs to, and
\* a.map(f).map(g) runs to what a.map(x => g(f(x))) runs to: both are the
\* same function MapOf of what a's producer ended in.
C11_MapFunctor ==
    \A fid \in TopFrames("map") :
       LET f     == frames[fid]
           h     == heap[f.obj]
           inner == Kid(fid, 1)
           a     == inner.out
       IN  f.st = "done" =>
              IF IsProducer(h.a)
              THEN /\ f.out = Resolved(MapOf(a, h.f, h.g))
                   /\ (h.f = "id" /\ h.g = "none") => f.out = run(a)
                   /\ runs[f.obj] = 1 =>
                         cbcalls[f.obj] = IF a.t = "resolved" THEN 1 ELSE 0
              ELSE LET a0 == frames[inner.kids[1]].out
                   IN  /\ f.out = Resolved(MapOf(a0, heap[h.a].f, h.f))
                       /\ runs[f.obj] = 1 =>
                             /\ cbcalls[h.a] = IF a0.t = "resolved" THEN 1 ELSE 0
                             /\ cbcalls[f.obj] = IF a.t = "resolved" THEN 1 ELSE 0

\* a.map(inc).map(inc) has run to Ok(v + 2), each callback called once
C11_Witness ==
    \E fid \in TopFrames("map") :
       LET h == heap[frames[fid].obj]
       IN  /\ frames[fid].st = "done"
           /\ ~IsProducer(h.a)
           /\ h.f = "inc" /\ heap[h.a].f = "inc"
           /\ frames[fid].out = Resolved(Ok(Num(heap[h.a].a + 2)))
           /\ cbcalls[h.a] = 1 /\ cbcalls[frames[fid].obj] = 1

\* C12: a running a.chainErr(f).  If a's producer resolves to v the result
\* is Ok(v) and f is not called; if it fails with e, f(e) is called once
\* and the result is the Result f(e) resolves to (an Ok recovers, an Err
\* replaces the error; for f(e) a ResultAsync: the Result its run
\* resolves to).
C12_ChainErr ==
    \A fid \in TopFrames("chainErr") :
       LET f == frames[fid]
           h == heap[f.obj]
           a == Kid(fid, 1).out
           c == CallFn(h.f, a.v, h.o)
       IN  f.st = "done" =>
              IF a.t = "resolved"
              THEN /\ f.out = Resolved(Ok(a.v))
                   /\ Len(f.kids) = 1
                   /\ runs[f.obj] = 1 => cbcalls[f.obj] = 0
              ELSE /\ runs[f.obj] = 1 => cbcalls[f.obj] = 1
                   /\ f.out = Resolved(
                         CASE c.t # "resolved" -> Err(c.v)
                           [] c.v.ty = "ra"    -> KidResult(fid, 2)
                           [] OTHER            -> c.v)

\* a failed with e and e => Promise.resolve(Ok(e + 1)) recovered
C12_Witness ==
    \E fid \in TopFrames("chainErr") :
       LET h == heap[frames[fid].obj]
       IN  /\ frames[fid].st = "done"
           /\ h.f = "ok"
           /\ Kid(fid, 1).out.t = "rejected"
           /\ cbcalls[frames[fid].obj] = 1
           /\ frames[fid].out = Resolved(Ok(Num(Kid(fid, 1).out.v.n + 1)))

\* the runs of obj that the client has seen resolve
Completed(fid) ==
    runs[frames[fid].obj] - (IF frames[fid].st = "done" THEN 0 ELSE 1)

\* C13: a running a.finally(effect) calls effect once per run, after the
\* run of a has resolved and whether it resolved to Ok or to Err: effect
\* has been called as often as runs have completed, and not yet for the
\* run in progress.  With an effect that returns, the result is a's Result.
C13_FinallyRunsEffect ==
    \A fid \in TopFrames("finally") :
       LET f == frames[fid]
           h == heap[f.obj]
       IN  /\ cbcalls[f.obj] = Completed(fid)
           /\ f.st = "done" =>
                 /\ Settles(fid, 1)
                 /\ h.f = "noop" => f.out = Kid(fid, 1).out

\* a failed, the effect has been called once and the result is a's Err
C13_Witness ==
    \E fid \in TopFrames("finally") :
       /\ frames[fid].st = "done"
       /\ heap[frames[fid].obj].f = "noop"
       /\ runs[frames[fid].obj] = 1
       /\ cbcalls[frames[fid].obj] = 1
       /\ isErr(KidResult(fid, 1))
       /\ frames[fid].out = Resolved(KidResult(fid, 1))

\* the effect of a.finally(effect) throws or returns a rejected promise
EffectFails(fid) == heap[frames[fid].obj].f \in {"throw", "reject"}

\* C14 as stated: a failure of the effect is not folded into the result,
\* a.finally(effect) still runs to a's own Result.
C14_EffectFailureIgnored ==
    \A fid \in TopFrames("finally") :
       (frames[fid].st = "done" /\ EffectFails(fid)) =>
          frames[fid].out = Kid(fid, 1).out

\* C14: a failure of the effect passed to finally is folded into the
\* result: if the effect throws x or returns a promise rejected with x,
\* a.finally(effect) runs to Err(x), whatever a's own Result was (as
\* Promise.prototype.finally does).
C14_EffectFailureFolded ==
    \A fid \in TopFrames("finally") :
       (frames[fid].st = "done" /\ EffectFails(fid)) =>
          frames[fid].out = Resolved(Err(Boom))

\* a ran to Ok, the effect threw, and the result is Err of what it threw
C14_Witness ==
    \E fid \in TopFrames("finally") :
       /\ frames[fid].st = "done"
       /\ heap[frames[fid].obj].f = "throw"
       /\ isOk(KidResult(fid, 1))
       /\ frames[fid].out = Resolved(Err(Boom))

\* C15: a running a.ifErr(effect) calls effect exactly when a's run
\* resolved to Err, a.ifOk(effect) exactly when it resolved to Ok, once;
\* with an effect that returns, the result is a's Result and not what the
\* effect returned.  (An effect that throws x makes the result Err(x), as
\* any throwing callback does.)
C15_IfErrIfOk ==
    \A fid \in TopFrames("ifErr") \cup TopFrames("ifOk") :
       LET f    == frames[fid]
           h    == heap[f.obj]
           hits == (h.k = "ifErr") = isErr(KidResult(fid, 1))
       IN  /\ (runs[f.obj] = 1 /\ f.st # "done") => cbcalls[f.obj] = 0
           /\ f.st = "done" =>
                 /\ Settles(fid, 1)
                 /\ runs[f.obj] = 1 => cbcalls[f.obj] = IF hits THEN 1 ELSE 0
                 /\ f.out = IF hits /\ h.f = "throw" THEN Resolved(Err(Boom))
                            ELSE Kid(fid, 1).out

\* a.ifErr(effect): a failed, the effect was called, the result is a's Err
C15_Witness ==
    \E fid \in TopFrames("ifErr") :
       /\ frames[fid].st = "done"
       /\ heap[frames[fid].obj].f = "noop"
       /\ cbcalls[frames[fid].obj] = 1
       /\ frames[fid].out = Resolved(Err(Num(heap[frames[fid].obj].a)))

\* the Results the elements of a gathering call ran to, in input order
KidResults(fid) == [j \in 1..Len(frames[fid].kids) |-> KidResult(fid, j)]

Payloads(results) == [j \in 1..Len(results) |-> extract(results[j])]

\* C16: errs(list) calls run() on every element at once, whatever the
\* others do: as soon as the call has returned, every producer of the
\* list has been called once per occurrence.  It resolves, after every
\* run has resolved, to the payloads of the Err elements in input order
\* (the Ok elements left out), whatever order the runs resolved in;
\* oks(list) likewise with the payloads of the Ok elements.
C16_ErrsOks ==
    \A fid \in FramesOf("errs") \cup FramesOf("oks") :
       LET f == frames[fid]
           n == Len(f.kids)
       IN  /\ \A j \in 1..n : Kid(fid, j).st \in {"running", "done"}
           /\ \A o \in Objs :
                 /\ runs[o] = Cardinality({j \in 1..n : Kid(fid, j).obj = o})
                 /\ calls[o] = runs[o]
           /\ f.st = "done" =>
                 /\ \A j \in 1..n : Settles(fid, j)
                 /\ f.out = Resolved(List(Payloads(
                       IF Kind(f) = "errs"
                       THEN SelectSeq(KidResults(fid), LAMBDA r : isErr(r))
                       ELSE SelectSeq(KidResults(fid), LAMBDA r : isOk(r)))))

\* errs([a, b]): b failed before a, a resolved to Ok, the result is [b's]
C16_Witness ==
    \E fid \in FramesOf("errs") :
       /\ frames[fid].st = "done"
       /\ Len(frames[fid].kids) = 2
       /\ Kid(fid, 1).obj # Kid(fid, 2).obj
       /\ frames[fid].ord = <<2, 1>>
       /\ isOk(KidResult(fid, 1))
       /\ frames[fid].out = Resolved(List(<<Num(Kid(fid, 2).obj)>>))

\* the calls made by awaiting a ResultAsync (then)
ThenFrames == {fid \in Fids : frames[fid].via = "then"}

\* C17: awaiting a ResultAsync yields what run() resolves to: the promise
\* of then is never rejected, whatever the producer does, it is resolved
\* with a Result and not with the payload of one, and for a producer
\* whose ending is known that Result is the one run() makes of the ending.
C17_ThenDelegatesToRun ==
    \A fid \in ThenFrames :
       LET f == frames[fid]
       IN  f.st = "done" =>
              /\ f.out.t = "resolved"
              /\ isResult(f.out.v)
              /\ Known(f.obj) =>
                    /\ f.out = run(f.pend)
                    /\ f.out = Resolved(IF Fails(heap[f.obj].b)
                                        THEN Err(Payload(heap[f.obj].b))
                                        ELSE Ok(Payload(heap[f.obj].b)))

\* await ResultAsync(() => { throw e }) has yielded Err(e)
C17_Witness ==
    \E fid \in ThenFrames :
       /\ frames[fid].st = "done"
       /\ frames[fid].parent = 0
       /\ heap[frames[fid].obj].b = [c |-> "throw", p |-> Thrown(Num(1))]
       /\ frames[fid].out = Resolved(Err(Num(1)))

\* the calls of obj's producer that have been entered
Entered(obj) ==
    {fid \in Fids : frames[fid].obj = obj /\ frames[fid].st \in {"running", "done"}}

\* C18: runs of the same ResultAsync, built from a deterministic producer,
\* resolve to equal Results also when they are in flight together and
\* their steps interleave in any order: every call of the producer is a
\* call of its own (as many calls as entered runs), and any two calls the
\* client made on the same value that have resolved have resolved to the
\* same Result.
C18_ConcurrentRuns ==
    /\ \A o \in Objs : calls[o] = Cardinality(Entered(o))
    /\ \A f1, f2 \in Fids :
          (/\ frames[f1].parent = 0 /\ frames[f2].parent = 0
           /\ frames[f1].obj = frames[f2].obj
           /\ frames[f1].st = "done" /\ frames[f2].st = "done")
          => frames[f1].out = frames[f2].out

\* two runs of a.map(f) in flight together: the run started later has
\* resolved to an Ok while the run started first is still waiting, and the
\* producer of a was called once for each of them
C18_Witness ==
    \E f1, f2 \in Fids :
       /\ f1 < f2
       /\ frames[f1].parent = 0 /\ frames[f2].parent = 0
       /\ frames[f1].obj = frames[f2].obj
       /\ heap[frames[f1].obj].k = "map"
       /\ frames[f1].st = "running" /\ frames[f2].st = "done"
       /\ isOk(frames[f2].out.v)
       /\ calls[heap[frames[f1].obj].a] = 2

\* the Result with the variant exchanged and the payload kept
Swapped(r) == IF isOk(r) THEN Err(extract(r)) ELSE Ok(extract(r))

\* C19: a.swap().run() resolves to Err(v) when the run of a resolved to
\* Ok(v) and to Ok(e) when it resolved to Err(e); and a.swap().swap() runs
\* to the very Result the run of a resolved to.
C19_Swap ==
    \A fid \in TopFrames("swap") :
       LET f     == frames[fid]
           inner == Kid(fid, 1)
       IN  f.st = "done" =>
              /\ inner.st = "done" /\ inner.via = "run"
              /\ isResult(inner.out.v)
              /\ f.out = Resolved(Swapped(inner.out.v))
              /\ heap[heap[f.obj].a].k = "swap" =>
                    /\ inner.obj = heap[f.obj].a
                    /\ f.out = frames[inner.kids[1]].out

\* a.swap().swap() has run to Err(1), a being a producer; the inner swap
\* ran to Ok(1)
C19_Witness ==
    \E fid \in TopFrames("swap") :
       /\ frames[fid].st = "done"
       /\ heap[heap[frames[fid].obj].a].k = "swap"
       /\ IsProducer(heap[heap[frames[fid].obj].a].a)
       /\ Kid(fid, 1).out = Resolved(Ok(Num(1)))
       /\ frames[fid].out = Resolved(Err(Num(1)))

\* the values the static constructors built
Statics == {o \in Objs : IsProducer(o) /\ heap[o].b.c \in {"liftResult", "fromPf"}}

\* C20: ResultAsync.liftResult(r).run() resolves to r, for Ok and for Err.
\* ResultAsync.fromPromise(f) does not call f when it builds the value
\* (f is called only in the producer, once per call of the producer, so
\* once per run), and its run resolves to the Result the promise of f
\* resolves to, or to Err(x) when the promise of f is rejected with x or f
\* throws x.
C20_StaticConstructors ==
    /\ \A o \in Statics :
          /\ Sum(runs, 1) = 0 => calls[o] = 0
          /\ o = Root => calls[o] + Waiting = runs[o]
    /\ \A fid \in RunFrames :
          LET f == frames[fid]
              b == heap[f.obj].b
          IN  (f.obj \in Statics /\ f.st = "done") =>
                 IF b.c = "liftResult" THEN f.out = Resolved(b.p.v)
                 ELSE IF b.p.t = "resolved" THEN f.out = Resolved(b.p.v)
                 ELSE f.out = Resolved(Err(b.p.v))

\* fromPromise(() => Promise.reject(1)) has been run MaxRuns times: f was
\* called MaxRuns times and the last run resolved to Err(1)
C20_Witness ==
    \E fid \in RunFrames :
       /\ frames[fid].obj \in Statics
       /\ frames[fid].obj = Root
       /\ heap[Root].b = [c |-> "fromPf", p |-> Rejected(Num(1))]
       /\ frames[fid].st = "done"
       /\ frames[fid].out = Resolved(Err(Num(1)))
       /\ runs[Root] = MaxRuns /\ calls[Root] = MaxRuns

\* C21: this.ap(other) follows the table
\*   Ok(v).ap(Ok(g))   = Ok(g(v))      Ok(v).ap(Err(x))  = Err(x)
\*   Err(e).ap(Ok(g))  = Err(e)        Err(e).ap(Err(x)) = Err(x)
\* so the error of the function side wins when both sides are Err; g is
\* called in the first row only.
C21_ResultAp ==
    sync.op = "ap" =>
       LET v == extract(sync.this)
           x == extract(sync.other)
       IN  CASE isOk(sync.this) /\ isOk(sync.other) ->
                   /\ sync.fcalls = 1
                   /\ sync.out = Resolved(Ok(Num(v.n + 10 * x.n)))
             [] isOk(sync.this) /\ isErr(sync.other) ->
                   sync.out = Resolved(Err(x)) /\ sync.fcalls = 0
             [] isErr(sync.this) /\ isOk(sync.other) ->
                   sync.out = Resolved(Err(v)) /\ sync.fcalls = 0
             [] OTHER ->
                   sync.out = Resolved(Err(x)) /\ sync.fcalls = 0

\* Err(1).ap(Err(2)) returned Err(2)
C21_Witness ==
    /\ sync.op = "ap"
    /\ sync.this = Err(Num(1))
    /\ sync.other = Err(Num(2))
    /\ sync.out = Resolved(Err(Num(2)))

\* C22: Ok(v).alt(x) returns Ok(v) for every x, and Err(e).alt(x) returns x
\* for every x: when both are Err the result holds the error of the
\* argument, not the receiver's.
C22_ResultAlt ==
    sync.op = "alt" =>
       /\ isOk(sync.this) => sync.out = Resolved(Ok(extract(sync.this)))
       /\ isErr(sync.this) => sync.out = Resolved(sync.other)
       /\ (isErr(sync.this) /\ isErr(sync.other)) =>
             extract(sync.out.v) = extract(sync.other)

\* Err(1).alt(Err(2)) returned Err(2)
C22_Witness ==
    /\ sync.op = "alt"
    /\ sync.this = Err(Num(1))
    /\ sync.other = Err(Num(2))
    /\ sync.out = Resolved(Err(Num(2)))

\* what r.map(x => g(f(x))) returns or throws
MapComposedOf(r, f, g) ==
    IF isErr(r) THEN Resolved(r)
    ELSE LET c == Composed(f, g, extract(r))
         IN  IF c.t = "resolved" THEN Resolved(Ok(c.v)) ELSE Thrown(c.v)

\* C23: Err(e).chain(f) and Err(e).map(f) return Err(e) and do not call f;
\* Ok(v).chain(f) is f(v) (it returns what f returns and throws what f
\* throws); r.map(id) returns a Result equal to r; and r.map(f).map(g)
\* comes to what r.map(x => g(f(x))) comes to.
C23_ResultLaws ==
    /\ (sync.op \in {"chain", "map"} /\ isErr(sync.this)) =>
          sync.out = Resolved(Err(extract(sync.this))) /\ sync.fcalls = 0
    /\ (sync.op = "chain" /\ isOk(sync.this)) =>
          /\ sync.fcalls = 1
          /\ sync.out = Returned(CallFn(sync.f, extract(sync.this), 0))
    /\ (sync.op = "map" /\ sync.f = "id") => sync.out = Resolved(sync.this)
    /\ sync.op = "mapMap" =>
          sync.out = MapComposedOf(sync.this, sync.f, sync.g)

\* Ok(1).map(inc).map(inc) returned Ok(3), after two calls of callbacks
C23_Witness ==
    /\ sync.op = "mapMap"
    /\ sync.this = Ok(Num(1))
    /\ sync.f = "inc" /\ sync.g = "inc"
    /\ sync.fcalls = 2
    /\ sync.out = Resolved(Ok(Num(3)))

\* C24 as claimed: a.equals(b) is true exactly when a and b are the same
\* variant and their payloads are structurally equal.
C24_StructuralEquals ==
    sync.op = "equals" =>
       (sync.out = Resolved(Bool(TRUE)))
          <=> /\ isOk(sync.this) = isOk(sync.other)
              /\ DeepEquals(extract(sync.this), extract(sync.other))

\* C24: a.equals(b) is true exactly when a and b are the same variant and
\* their payloads are the same value: the same number, or the same object
\* (two arrays with equal elements are not the same object).  So it is
\* true only if the payloads are structurally equal, and Ok(x).equals(Err(x))
\* and Err(x).equals(Ok(x)) are false.
C24_StrictEquals ==
    sync.op = "equals" =>
       LET a == extract(sync.this)
           b == extract(sync.other)
       IN  /\ sync.out \in {Resolved(Bool(TRUE)), Resolved(Bool(FALSE))}
           /\ (sync.out = Resolved(Bool(TRUE)))
                 <=> /\ isOk(sync.this) = isOk(sync.other)
                     /\ a.ty = b.ty
                     /\ a.n = b.n
           /\ sync.out = Resolved(Bool(TRUE)) => DeepEquals(a, b)
           /\ isOk(sync.this) # isOk(sync.other) =>
                 sync.out = Resolved(Bool(FALSE))

\* Ok([1]).equals(Ok([1])) returned false for two arrays
C24_Witness ==
    /\ sync.op = "equals"
    /\ sync.this = Ok(Arr(1, <<Num(1)>>))
    /\ sync.other = Ok(Arr(2, <<Num(1)>>))
    /\ sync.out = Resolved(Bool(FALSE))

\* C25: Ok(v).unsafeCoerce() returns v and never throws; Err(e).unsafeCoerce()
\* always throws: e itself when e is an Error, and otherwise an Error that
\* is not e.
C25_UnsafeCoerce ==
    sync.op = "unsafeCoerce" =>
       LET p == extract(sync.this)
       IN  IF isOk(sync.this) THEN sync.out = Resolved(p)
           ELSE /\ sync.out.t = "throw"
                /\ p.ty = "Error" => sync.out.v = p
                /\ p.ty # "Error" => (sync.out.v # p /\ sync.out.v.ty = "Error")

\* Err(1).unsafeCoerce() threw an Error
C25_Witness ==
    /\ sync.op = "unsafeCoerce"
    /\ sync.this = Err(Num(1))
    /\ sync.out.t = "throw"
    /\ sync.out.v.ty = "Error"

\* C26: r.toMaybe() is Nothing if and only if r is an Err, and Just(v)
\* with the same value when r is Ok(v); r.errToMaybe() is Nothing if and
\* only if r is an Ok, and Just(e) when r is Err(e).  A run of
\* a.toMaybeAsync() resolves to Just(v) when the run of a resolved to Ok(v)
\* and to Nothing when it resolved to an Err, whatever the error.
C26_ToMaybe ==
    /\ sync.op = "toMaybe" =>
          /\ (sync.out = Resolved(Nothing)) <=> isErr(sync.this)
          /\ isOk(sync.this) => sync.out = Resolved(Just(extract(sync.this)))
    /\ sync.op = "errToMaybe" =>
          /\ (sync.out = Resolved(Nothing)) <=> isOk(sync.this)
          /\ isErr(sync.this) => sync.out = Resolved(Just(extract(sync.this)))
    /\ \A fid \in TopFrames("toMaybeAsync") :
          frames[fid].st = "done" =>
             LET r == KidResult(fid, 1)
             IN  /\ Kid(fid, 1).via = "run" /\ isResult(r)
                 /\ (frames[fid].out = Resolved(Nothing)) <=> isErr(r)
                 /\ isOk(r) => frames[fid].out = Resolved(Just(extract(r)))

\* a.toMaybeAsync() has run to Nothing, a having run to Err(1)
C26_Witness ==
    \E fid \in TopFrames("toMaybeAsync") :
       /\ frames[fid].st = "done"
       /\ KidResult(fid, 1) = Err(Num(1))
       /\ frames[fid].out = Resolved(Nothing)

\* the calls of producers made by run() that have been entered
Runs == {fid \in RunFrames : /\ frames[fid].obj # 0
                             /\ frames[fid].st \in {"running", "done"}}

Intercepted(b) == b.p.t = "rejected" \/ isErr(b.p.v)

\* C28: a failure raised by awaiting fromPromise or liftResult inside the
\* producer's own try is caught by its catch block, and what the catch
\* block does decides the run: if it calls throwE(e2) the run resolves to
\* Err(e2), which does not hold the intercepted failure; if it returns,
\* the run resolves to an Ok.  Without a failure the catch block is not
\* run and the run resolves to an Ok.
C28_TryCatch ==
    \A fid \in RunFrames :
       LET f == frames[fid]
           b == heap[f.obj].b
       IN  (f.obj # 0 /\ f.st = "done" /\ b.c \in {"tryFromP", "tryLift", "tryReturn"}) =>
              /\ (Intercepted(b) /\ b.c # "tryReturn") =>
                    /\ f.out = Resolved(Err(ShouldShow))
                    /\ extract(f.out.v) # Payload(b)
              /\ (~Intercepted(b) \/ b.c = "tryReturn") =>
                    f.out = Resolved(Ok(Undef))

\* the test: fromPromise(Promise.reject(1)) inside try, throwE in the catch
C28_Witness ==
    \E fid \in RunFrames :
       /\ frames[fid].obj # 0
       /\ frames[fid].st = "done"
       /\ heap[frames[fid].obj].b = [c |-> "tryFromP", p |-> Rejected(Num(1))]
       /\ frames[fid].out = Resolved(Err(ShouldShow))

\* what the callback of the extend called fid returned or threw, given a
\* ResultAsync lifted from what the run of a resolved to
ExtendCall(fid) == CallFn(heap[frames[fid].obj].f, Lifted(KidResult(fid, 1)), 0)

\* C29 as claimed: if a runs to Ok(v), f is invoked once and the result is
\* Ok of what f returned; if a runs to Err(e) the result is Err(e) and f is
\* not invoked.
C29_ExtendPlain ==
    \A fid \in TopFrames("extend") :
       (frames[fid].st = "done" /\ isOk(KidResult(fid, 1))
           /\ ExtendCall(fid).t = "resolved") =>
          frames[fid].out = Resolved(Ok(ExtendCall(fid).v))

\* C29: when a.extend(f) is run, a is run; if that run resolves to Err(e)
\* the result is Err(e) and f is not called; if it resolves to Ok(v), f is
\* called once with a ResultAsync that runs to Ok(v) (x => x.orDefault(0)
\* yields v, not 0), and the result is Ok of what f returned, a promise
\* that f returned being awaited first: Ok of the value it resolves to,
\* Err(x) if it is rejected with x.  If f throws x the result is Err(x).
C29_Extend ==
    \A fid \in TopFrames("extend") :
       LET f == frames[fid]
           h == heap[f.obj]
           r == KidResult(fid, 1)
       IN  f.st = "done" =>
              /\ Kid(fid, 1).via = "run" /\ isResult(r)
              /\ runs[f.obj] = 1 => cbcalls[f.obj] = IF isOk(r) THEN 1 ELSE 0
              /\ isErr(r) => f.out = Resolved(r)
              /\ isOk(r) =>
                    f.out = CASE h.f = "noop"      -> Resolved(Ok(Undef))
                              [] h.f = "orDefault" -> Resolved(Ok(extract(r)))
                              [] h.f = "reject"    -> Resolved(Err(Boom))
                              [] OTHER             -> Resolved(Err(Boom))

\* a.extend(x => x.orDefault(0)) has run to Ok(v), the value a ran to
C29_Witness ==
    \E fid \in TopFrames("extend") :
       /\ frames[fid].st = "done"
       /\ heap[frames[fid].obj].f = "orDefault"
       /\ isOk(KidResult(fid, 1))
       /\ frames[fid].out = Resolved(Ok(extract(KidResult(fid, 1))))
       /\ cbcalls[frames[fid].obj] = 1

\* C30: a.mapErr(f).run() resolves to Err(f(e)) when a's producer fails
\* with e, whether it returned a promise rejected with e or threw e (the
\* two ways a throwE(e) shows), and f is called once; it resolves to the
\* unchanged Ok(v), without a call of f, when a's producer resolves to v.
\* If f throws x the result is Err(x).
C30_MapErr ==
    \A fid \in TopFrames("mapErr") :
       LET f == frames[fid]
           h == heap[f.obj]
           a == Kid(fid, 1).out
       IN  f.st = "done" =>
              /\ Kid(fid, 1).via = "raw"
              /\ runs[f.obj] = 1 =>
                    cbcalls[f.obj] = IF a.t = "resolved" THEN 0 ELSE 1
              /\ a.t = "resolved" => f.out = Resolved(Ok(a.v))
              /\ (a.t \in {"rejected", "throw"} /\ h.f = "inc") =>
                    f.out = Resolved(Err(Num(a.v.n + 1)))
              /\ (a.t \in {"rejected", "throw"} /\ h.f = "throw") =>
                    f.out = Resolved(Err(Boom))

\* a.mapErr(x => x + 1) has run to Err(2), a's producer having thrown 1
C30_Witness ==
    \E fid \in TopFrames("mapErr") :
       /\ frames[fid].st = "done"
       /\ heap[frames[fid].obj].f = "inc"
       /\ Kid(fid, 1).out = Thrown(Num(1))
       /\ frames[fid].out = Resolved(Err(Num(2)))
\* the calls of producers that flatten a nested ResultAsync
Flattens(kinds) ==
    {fid \in Fids : /\ Kind(frames[fid]) \in kinds
                    /\ heap[heap[frames[fid].obj].a].T = "ra"}

\* the Result the run of the outer ResultAsync came to
OuterResult(fid) ==
    IF Kid(fid, 1).via = "raw" THEN run(Kid(fid, 1).out).v ELSE KidResult(fid, 1)

\* the outer ResultAsync failed: that Err, and the inner producer is not
\* called; it resolved to the inner one: the inner one is run, and the
\* result is the Result of that run
Flattened(kinds) ==
    \A fid \in Flattens(kinds) :
       LET f     == frames[fid]
           inner == heap[heap[f.obj].a].o
           o     == Kid(fid, 1)
       IN  f.st = "done" =>
              /\ o.st = "done"
              /\ IF isErr(OuterResult(fid))
                 THEN /\ f.out = Resolved(OuterResult(fid))
                      /\ runs[f.obj] = 1 => calls[inner] = 0
                 ELSE /\ o.kids # <<>>
                      /\ frames[o.kids[1]].obj = inner
                      /\ runs[f.obj] = 1 => calls[inner] = 1
                      /\ f.out = frames[o.kids[1]].out

\* C31: a.join() for a nested a.  If the outer a runs to Err(e) the result
\* is Err(e) and the inner producer is not called; if the outer a resolves
\* to the inner ResultAsync, the inner one is run and the result is the
\* Result of that run.  a.chain(x => x) runs to the same Result as a.join().
C31_JoinIsChain == Flattened({"join", "chain"})

\* the elements of list that are Err (that are Ok), in the order of list
ErrsIn(list) == SelectSeq(list, isErr)

OksIn(list) == SelectSeq(list, isOk)

PayloadsOf(list) == [i \in 1..Len(list) |-> extract(list[i])]

\* C32: Result.sequence(list) returns the Err that comes first in list if
\* an element is an Err, Ok of the payloads in the order of list if not,
\* and Ok([]) for the empty list; Result.errs(list) and Result.oks(list)
\* return the payloads of the Err elements, of the Ok elements, in the
\* order of list.
C32_ResultSequence ==
    LET list == sync.this.l
    IN  /\ sync.op = "sequence" =>
              IF ErrsIn(list) # <<>>
              THEN sync.out = Resolved(ErrsIn(list)[1])
              ELSE sync.out = Resolved(Ok(List(PayloadsOf(list))))
        /\ (sync.op = "sequence" /\ list = <<>>) =>
              sync.out = Resolved(Ok(List(<<>>)))
        /\ sync.op = "errs" =>
              sync.out = Resolved(List(PayloadsOf(ErrsIn(list))))
        /\ sync.op = "oks" =>
              sync.out = Resolved(List(PayloadsOf(OksIn(list))))

\* sequence([Ok(1), Err(1), Err(2)]) returned Err(1)
C32_Witness ==
    /\ sync.op = "sequence"
    /\ sync.this.l = <<Ok(Num(1)), Err(Num(1)), Err(Num(2))>>
    /\ sync.out = Resolved(Err(Num(1)))

\* the elements of a call of all whose run has not resolved yet
Unsettled(fid) == {j \in 1..Len(frames[fid].kids) : ~Settles(fid, j)}

CanRunTo(obj) == {run(e).v : e \in Endings(obj)}

\* what ra.ap(rfn) comes to; where the function throws x, the synchronous
\* call throws x, which a run folds into Err(x)
SyncAp(ra, rfn) ==
    LET c == Result_ap(ra, rfn).out
    IN  IF c.t = "throw" THEN Resolved(Err(c.v)) ELSE c

\* C34: a.ap(fn).run() resolves to the Result the synchronous ap gives for
\* the Results of the two sides, ra.ap(rfn), in each of the four
\* combinations of Ok and Err: ra is what a ran to and, where the function
\* side failed and a was not run, anything a can run to.
C34_ApAgreesWithResult ==
    \A fid \in FramesOf("ap") :
       LET f   == frames[fid]
           h   == heap[f.obj]
           rfn == KidResult(fid, 1)
       IN  f.st = "done" =>
              /\ Len(f.kids) = 2 =>
                    f.out = SyncAp(KidResult(fid, 2), rfn)
              /\ Len(f.kids) = 1 =>
                    \A ra \in CanRunTo(h.a) : f.out = SyncAp(ra, rfn)

\* a.ap(fn) where fn ran to Ok(g) and a to Err: the result is a's Err, as
\* Err.ap gives it
C34_Witness ==
    \E fid \in FramesOf("ap") :
       LET h == heap[frames[fid].obj]
       IN  /\ frames[fid].st = "done"
           /\ Len(frames[fid].kids) = 2
           /\ isOk(KidResult(fid, 1))
           /\ KidResult(fid, 2) = Err(Num(h.a))
           /\ frames[fid].out = Resolved(Err(Num(h.a)))

\* the methods that derive a ResultAsync from a receiver
Derives == {"map", "mapErr", "bimap", "chain", "chainErr", "alt", "extend",
            "ifErr", "ifOk", "swap", "finally", "join", "toMaybeAsync"}

\* the derived values whose receiver is not one of their arguments as well
DerivedObjs == {d \in Objs : heap[d].k \in Derives /\ heap[d].o # heap[d].a}

\* C35: a call of the producer of a value derived by map, mapErr, bimap,
\* chain, chainErr, alt, extend, ifErr, ifOk, swap, finally, join or
\* toMaybeAsync calls the receiver's producer once: the receiver is never
\* called more often than the derived producer, and once the runs are over
\* it was called exactly once per run.  That holds for extend with a
\* callback that runs the ResultAsync it is handed, too.
C35_ReceiverOnce ==
    \A d \in DerivedObjs :
       LET a == heap[d].a
       IN  /\ calls[a] <= calls[d]
           /\ calls[d] <= calls[a] + 1
           /\ d = Root => calls[d] = runs[d]
           /\ Idle => calls[a] = calls[d]

\* a.extend(x => x.orDefault(0)) was run twice, f ran the value it was
\* handed each time, and a's producer was called twice
C35_Witness ==
    \E d \in DerivedObjs :
       /\ heap[d].k = "extend" /\ heap[d].f = "orDefault"
       /\ Idle
       /\ runs[d] = MaxRuns
       /\ cbcalls[d] = MaxRuns
       /\ calls[heap[d].a] = MaxRuns

====
